---- MODULE Spec2Model ----
(***************************************************************************)
(* A model of katportalclient's KATPortalClient (client.py): the websocket *)
(* connection lifecycle, the JSON-RPC request/response correlation and the *)
(* cache of subscriptions and sampling strategies that is replayed after a *)
(* reconnect.  The client runs on a single-threaded tornado IOLoop: every  *)
(* action below is one uninterrupted run of a callback or of a coroutine   *)
(* between two suspension points (a yield on a future that is not done).   *)
(***************************************************************************)
EXTENDS Integers, Sequences, FiniteSets, TLC

\* ------------------------------------------------------------------ bounds
\* Request ids a behaviour may draw (each JSONRPCRequest gets a fresh one).
MaxId == 2
\* Websocket channels the transport may open in a behaviour.
MaxChan == 2
\* Futures _send may create in a behaviour.
MaxFut == 4
\* Back-off timers (call_later) that may be outstanding at once.
MaxTimers == 1
\* _connect coroutines that may be unfinished at once when connect() is called.
MaxConnTasks == 2
\* Requests recorded in a behaviour of the ledger specification.
MaxLedgerOps == 4
MaxCorrId == 3          \* requests made in the correlator specification
MaxCorrChan == 1        \* channels opened in the correlator specification
MaxLiveId == 1          \* requests made in the fair specification
MaxLiveChan == 3        \* channels opened in the fair specification
MaxHist == 1            \* sensor_history calls made in the history specification
MaxHistChan == 1        \* channels opened in the history specification
MaxHistId == 2          \* requests made in the history specification
MaxSamples == 3         \* samples accumulated by a history query
MaxPending == 1         \* absolute value of a query's num_samples_pending
MaxUpdates == 2         \* messages handed to the update callback
MaxOrphans == 1         \* handler exceptions left in unread futures
MaxRouterId == 3        \* requests made in the router specification
MaxRouterChan == 1      \* channels opened in the router specification
MaxRouterFut == 5       \* futures created in the router specification
MaxNotices == 1         \* _resend_subscriptions coroutines unfinished at once
MaxFrameId == 1         \* requests made in the frames specification
MaxFrameChan == 1       \* channels opened in the frames specification
MaxRouted == 3          \* frames handled in the inbound specification
MaxInboundId == 2       \* requests made in the inbound specification
MaxInboundChan == 1     \* channels opened in the inbound specification
MaxClock == 3           \* seconds the clock advances in the queries specification
MaxBatchTimeout == 2    \* largest timeout_sec given to sensors_histories
MaxSubNr == 2           \* largest subarray number
MaxStratId == 3         \* request ids drawn in the strategy specification
MaxStratChan == 2       \* channels opened in the strategy specification
MaxStratFut == 5        \* futures created in the strategy specification
MaxOrderId == 2         \* request ids drawn in the ordering specification
MaxOrderChan == 2       \* channels opened in the ordering specification
MaxRecordId == 4        \* request ids drawn in the recording specification
MaxRecordChan == 1      \* channels opened in the recording specification
MaxRecordCalls == 1     \* recorded calls in flight in the recording specification
MaxPassId == 1          \* request ids drawn in the passes specification
MaxPassChan == 1        \* channels opened in the passes specification
MaxPassNotices == 2     \* unfinished passes in the passes specification
MaxPassRouted == 6      \* frames handled in the passes specification
MaxPairHist == 2        \* sensor_history calls in the isolation specification
MaxPairId == 2          \* request ids drawn in the isolation specification
MaxPairChan == 1        \* channels opened in the isolation specification
MaxPairSamples == 1     \* samples a query accumulates in the isolation specification

\* --------------------------------------------------------------- constants
\* MAX_SAMPLES_PER_HISTORY_QUERY (1000000 in client.py), scaled down.
MAX_SAMPLES_PER_HISTORY_QUERY == 2
\* The default of sensor_history's timeout_sec (300 in client.py), scaled down.
SENSOR_HISTORY_TIMEOUT_SEC == 3

\* ------------------------------------------------------------- requests
None == "None"

Namespaces == {"n1", "n2"}
SubStrings == {"x", "y"}
Sensors == {"s1"}
Strategies == {"event", "period 1", "none"}

SubParams == {<<n, p>> : n \in Namespaces, p \in SubStrings}
StratParams == {<<n, s, st, FALSE>> : n \in Namespaces, s \in Sensors, st \in Strategies}

\* JSONRPCRequest(method, params): id drawn fresh by the constructor.
JSONRPCRequest(method, params, id) == [method |-> method, params |-> params, id |-> id]

\* req.method_and_params_hash(): the identity used for deduplication is
\* derived from (method, params) only, never from the id.
method_and_params_hash(req) == <<req.method, req.params>>

\* jsonrpc_request.method.startswith('set_sampling_strat')
StartsWithSetSamplingStrat(method) == method \in {"set_sampling_strategy", "set_sampling_strategies"}

\* ---------------------------------------------------------------- ledger
\* list.remove(x): drop the first element equal to x (requests compare by
\* object identity; the id makes two request objects differ).
RECURSIVE ListRemove(_, _)
ListRemove(list, x) ==
    IF list = <<>> THEN <<>>
    ELSE IF Head(list) = x THEN Tail(list)
    ELSE <<Head(list)>> \o ListRemove(Tail(list), x)

\* for req in requests_to_remove: self._ws_jsonrpc_cache.remove(req)
RECURSIVE RemoveRequests(_, _)
RemoveRequests(list, requests_to_remove) ==
    IF requests_to_remove = <<>> THEN list
    ELSE RemoveRequests(ListRemove(list, Head(requests_to_remove)), Tail(requests_to_remove))

\* Mutant: an unsubscribe matches every subscribe of the namespace.
MatchesSubscribe_NamespaceOnly(req, jsonrpc_request) ==
    req.method = "subscribe" /\ req.params[1] = jsonrpc_request.params[1]

\* req.method == 'subscribe' and req.params == jsonrpc_request.params
MatchesSubscribe(req, jsonrpc_request) ==
    req.method = "subscribe" /\ req.params = jsonrpc_request.params

\* Mutant: the clearing request matches entries of either strategy method.
MatchesStrategy_AnyMethod(req, jsonrpc_request) ==
    /\ StartsWithSetSamplingStrat(req.method)
    /\ req.params[1] = jsonrpc_request.params[1]
    /\ req.params[2] = jsonrpc_request.params[2]

\* req.method == jsonrpc_request.method and params[0], params[1] equal
\* (Python's params[0], params[1], params[2] are params[1..3] here).
MatchesStrategy(req, jsonrpc_request) ==
    /\ req.method = jsonrpc_request.method
    /\ req.params[1] = jsonrpc_request.params[1]
    /\ req.params[2] = jsonrpc_request.params[2]

\* Mutant: the search loop without its break, so that only the comparison
\* with the last cached request survives the loop.
DuplicateFound_NoBreak(cache, jsonrpc_request) ==
    /\ cache # <<>>
    /\ method_and_params_hash(cache[Len(cache)]) = method_and_params_hash(jsonrpc_request)

\* The duplicate search of the else branch (loop with break).
DuplicateFound(cache, jsonrpc_request) ==
    \E i \in 1..Len(cache) :
        method_and_params_hash(cache[i]) = method_and_params_hash(jsonrpc_request)

\* _cache_jsonrpc_request: the cache after recording jsonrpc_request.
cache_jsonrpc_request(cache, jsonrpc_request) ==
    IF jsonrpc_request.method = "unsubscribe"
    THEN RemoveRequests(cache,
             SelectSeq(cache, LAMBDA req : MatchesSubscribe(req, jsonrpc_request)))
    ELSE IF /\ StartsWithSetSamplingStrat(jsonrpc_request.method)
            /\ jsonrpc_request.params[3] = "none"
    THEN RemoveRequests(cache,
             SelectSeq(cache, LAMBDA req : MatchesStrategy(req, jsonrpc_request)))
    ELSE IF DuplicateFound(cache, jsonrpc_request) THEN cache
    ELSE Append(cache, jsonrpc_request)

\* ----------------------------------------------------------------- state
VARIABLES
    ws,                  \* self._ws: 0 is None, k > 0 the k-th channel opened
    disconnect_issued,   \* self._disconnect_issued
    heart_beat_running,  \* self._heart_beat_timer.is_running()
    ws_jsonrpc_cache,    \* self._ws_jsonrpc_cache: the ledger, a list of requests
    pending_requests,    \* self._pending_requests: request id -> future
    futures,             \* the futures _send created: "pending" or the value set
    lock_held,           \* self._ws_connecting_lock is taken
    conn_tasks,          \* the _connect coroutines that have not returned, oldest first
    timers,              \* outstanding call_later(WS_RECONNECT_INTERVAL, _connect, True)
    calls,               \* subscribe/unsubscribe/strategy coroutines awaiting a response
    nextId,              \* next fresh request id
    channels,            \* transport state of each channel opened: "open" or "closed"
    nullq,               \* channels whose closure is not yet reported (null frame due)
    sent,                \* per channel, the request ids written to it, in order
    unanswered,          \* per channel, the ids written and not yet answered
    lastCached,          \* observer: the last request RecordRequest recorded and its effect
    lossSnap,            \* observer: ledger ids when the last transport loss was handled
    userDisc,            \* observer: disconnect() was called and no connect() since
    on_update,           \* self._on_update is set (a callback was given to __init__)
    updates,             \* the messages handed to self._on_update, in order
    orphans,             \* frames whose handler raised into a future nobody reads
    sensor_history_states, \* self._sensor_history_states: namespace -> query state
    hist,                \* the sensor_history calls made, running or ended
    notices,             \* the _resend_subscriptions coroutines that have not returned
    now,                 \* time.time(), in seconds
    batch,               \* the sensors_histories coroutine
    lookup,              \* the sensor_subarray_lookup coroutine
    routed               \* observer: the frames handled, each with the handler it was given to

clientVars == <<ws, disconnect_issued, heart_beat_running, ws_jsonrpc_cache,
                pending_requests, futures, lock_held, conn_tasks, timers, calls, nextId>>
netVars == <<channels, nullq, sent, unanswered>>
obsVars == <<lastCached, lossSnap, userDisc>>
routerVars == <<on_update, updates, orphans, sensor_history_states, hist, notices>>
queryVars == <<now, batch, lookup>>
vars == <<clientVars, netVars, obsVars, routerVars, queryVars, routed>>

\* Python values whose truth value the code tests: None, a bool, a number.
PyNone == [t |-> "None", n |-> 0]
PyBool(b) == [t |-> "bool", n |-> IF b THEN 1 ELSE 0]
PyNum(x) == [t |-> "num", n |-> x]

\* bool(v): None, False and 0 are false.
Truthy(v) == v.n # 0

\* No sensors_histories call, no sensor_subarray_lookup call yet.
NoBatch ==
    [pc |-> "idle", include_value_ts |-> FALSE, timeout_sec |-> 0, request_start_sec |-> 0,
     sensors |-> <<>>, i |-> 0, started |-> 0,
     call |-> [include_value_ts |-> PyNone, timeout_sec |-> PyNone],
     histories |-> <<>>]
NoLookup == [pc |-> "idle", sub_nr |-> PyNone, raised |-> None, fetches |-> 0]

NoReq == JSONRPCRequest(None, <<>>, 0)
NoCached == [req |-> NoReq, before |-> <<>>, after |-> <<>>]

\* __init__, the on_update_callback argument apart.
InitFields ==
    /\ ws = 0
    /\ disconnect_issued = FALSE
    /\ heart_beat_running = FALSE
    /\ ws_jsonrpc_cache = <<>>
    /\ pending_requests = <<>>
    /\ futures = <<>>
    /\ lock_held = FALSE
    /\ conn_tasks = <<>>
    /\ timers = 0
    /\ calls = {}
    /\ nextId = 1
    /\ channels = <<>>
    /\ nullq = {}
    /\ sent = <<>>
    /\ unanswered = <<>>
    /\ lastCached = NoCached
    /\ lossSnap = <<>>
    /\ userDisc = FALSE
    /\ updates = <<>>
    /\ orphans = <<>>
    /\ sensor_history_states = [ns \in {} |-> 0]
    /\ hist = <<>>
    /\ notices = <<>>
    /\ now = 0
    /\ batch = NoBatch
    /\ lookup = NoLookup
    /\ routed = <<>>

\* __init__ with an on_update_callback.
Init == InitFields /\ on_update = TRUE

\* __init__ with or without an on_update_callback.
InitRouter == InitFields /\ on_update \in BOOLEAN

\* is_connected
is_connected(w) == w # 0

\* self._ws.close(): the transport reports the closure later with a null frame.
CloseChannel(k, chs) == [chs EXCEPT ![k] = "closed"]

\* ------------------------------------------------------------ correlator
\* A future as tornado.gen.Future(): id is the request it was created for,
\* value is "pending" until set_result.
NewFuture(id) == [id |-> id, value |-> "pending"]

\* The exception _send sets on the future when there is no websocket.
NotConnected == "Failed to send request! Not connected."

\* Mutant: _send registers the future before it looks at is_connected.
send_RegisterFirst(req, w, chs, futs, pend, snt, unans, closedRaises) ==
    [futures |-> Append(futs, NewFuture(req.id)),
     pending |-> [i \in (DOMAIN pend) \cup {req.id} |->
                     IF i = req.id THEN Len(futs) + 1 ELSE pend[i]],
     sent |-> snt, unanswered |-> unans,
     outcome |-> IF is_connected(w) THEN "sent" ELSE "failed",
     fut |-> Len(futs) + 1,
     future |-> IF is_connected(w) THEN "pending" ELSE NotConnected]

\* _send(req) with self._ws = w: what it leaves behind and what it returns.
\* closedRaises: whether write_message on a channel the transport has
\* already closed raises (WebSocketClosedError) or drops the frame silently.
send(req, w, chs, futs, pend, snt, unans, closedRaises) ==
    IF is_connected(w)
    THEN LET fut == Len(futs) + 1
             open == chs[w] = "open"
         IN [futures |-> Append(futs, NewFuture(req.id)),
             pending |-> [i \in (DOMAIN pend) \cup {req.id} |->
                             IF i = req.id THEN fut ELSE pend[i]],
             sent |-> IF open THEN [snt EXCEPT ![w] = Append(@, req.id)] ELSE snt,
             unanswered |-> IF open THEN [unans EXCEPT ![w] = @ \cup {req.id}] ELSE unans,
             outcome |-> IF open \/ ~closedRaises THEN "sent" ELSE "raised",
             fut |-> fut,
             future |-> "pending"]
    ELSE [futures |-> futs, pending |-> pend, sent |-> snt, unanswered |-> unans,
          outcome |-> "failed", fut |-> 0, future |-> NotConnected]

\* Mutant: a response resolves every future that is still pending.
process_json_rpc_message_AnyPending(futs, pend, msg_id, error, result) ==
    [f \in 1..Len(futs) |->
        IF futs[f].value = "pending"
        THEN [futs[f] EXCEPT !.value = IF error # None THEN error ELSE result]
        ELSE futs[f]]

\* _process_json_rpc_message(msg, msg_id): the futures afterwards.
process_json_rpc_message(futs, pend, msg_id, error, result) ==
    IF msg_id \in DOMAIN pend
    THEN [futs EXCEPT ![pend[msg_id]].value = IF error # None THEN error ELSE result]
    ELSE futs

\* ------------------------------------------------------------- _connect
\* A _connect coroutine that has not returned.  pc: "acquire" waits for the
\* lock, "locked" was handed the lock and is scheduled to run, "connecting"
\* awaits websocket_connect, "replay" awaits the future of a resent request.
\* i is the list iterator's index; attached says the iterator still walks
\* the list self._ws_jsonrpc_cache refers to (old is the list otherwise).
ConnTask(pc, reconnecting, auto) ==
    [pc |-> pc, reconnecting |-> reconnecting, i |-> 0, fut |-> 0,
     attached |-> TRUE, old |-> <<>>, auto |-> auto, owner |-> 0]

\* The record c of a _connect call, the coroutines it added (those after the
\* first n) being awaited by the sensor_history call o (0: by no such call).
Owned(c, n, o) ==
    [c EXCEPT !.tasks = [j \in 1..Len(c.tasks) |->
                            IF j > n THEN [c.tasks[j] EXCEPT !.owner = o]
                            ELSE c.tasks[j]]]

RemoveAt(seq, t) == [j \in 1..(Len(seq) - 1) |-> IF j < t THEN seq[j] ELSE seq[j + 1]]

Waiting(tasks) == {t \in 1..Len(tasks) : tasks[t].pc = "acquire"}

\* Mutant: _connect without the lock around its body.
LockFree_NoLock(held) == TRUE

\* self._ws_connecting_lock.acquire() is immediately granted.
LockFree(held) == ~held

\* Leaving the with block: the lock goes to the longest waiting coroutine,
\* which runs in a later IOLoop iteration, or becomes free.
Release(tasks) ==
    IF Waiting(tasks) = {}
    THEN [held |-> FALSE, tasks |-> tasks]
    ELSE LET t == CHOOSE t \in Waiting(tasks) : \A u \in Waiting(tasks) : t <= u
         IN [held |-> TRUE, tasks |-> [tasks EXCEPT ![t].pc = "locked"]]

\* The body of _connect once the lock is held, up to its first suspension:
\* tasks are the other coroutines, w is self._ws.
connect_locked(reconnecting, auto, w, tasks, hb) ==
    IF ~is_connected(w)
    THEN [held |-> TRUE, hb |-> FALSE,
          tasks |-> Append(tasks, ConnTask("connecting", reconnecting, auto))]
    ELSE [held |-> Release(tasks).held, hb |-> hb, tasks |-> Release(tasks).tasks]

\* A call of _connect(reconnecting) up to its first suspension.
connect_call(reconnecting, auto, w) ==
    IF LockFree(lock_held)
    THEN connect_locked(reconnecting, auto, w, conn_tasks, heart_beat_running)
             @@ [di |-> FALSE]
    ELSE [held |-> lock_held, hb |-> heart_beat_running, di |-> disconnect_issued,
          tasks |-> Append(conn_tasks, ConnTask("acquire", reconnecting, auto))]

ApplyConnect(c) ==
    /\ lock_held' = c.held
    /\ heart_beat_running' = c.hb
    /\ disconnect_issued' = c.di
    /\ conn_tasks' = c.tasks

\* connect()
UserConnect ==
    /\ ApplyConnect(connect_call(FALSE, FALSE, ws))
    /\ userDisc' = FALSE
    /\ UNCHANGED <<ws, ws_jsonrpc_cache, pending_requests, futures, timers, calls, nextId>>
    /\ UNCHANGED netVars
    /\ UNCHANGED <<lastCached, lossSnap>>
    /\ UNCHANGED routerVars
    /\ UNCHANGED <<queryVars, routed>>

\* The IOLoop runs a callback scheduled by call_later(WS_RECONNECT_INTERVAL, ...).
TimerFire ==
    /\ timers > 0
    /\ timers' = timers - 1
    /\ ApplyConnect(connect_call(TRUE, userDisc, ws))
    /\ UNCHANGED <<ws, ws_jsonrpc_cache, pending_requests, futures, calls, nextId>>
    /\ UNCHANGED netVars
    /\ UNCHANGED obsVars
    /\ UNCHANGED routerVars
    /\ UNCHANGED <<queryVars, routed>>

\* A coroutine that waited for the lock runs with the lock held.
LockResume(t) ==
    /\ conn_tasks[t].pc = "locked"
    /\ LET c == connect_locked(conn_tasks[t].reconnecting, conn_tasks[t].auto, ws,
                               RemoveAt(conn_tasks, t), heart_beat_running)
       IN ApplyConnect(Owned(c @@ [di |-> FALSE], Len(conn_tasks) - 1, conn_tasks[t].owner))
    /\ UNCHANGED <<ws, ws_jsonrpc_cache, pending_requests, futures, timers, calls, nextId>>
    /\ UNCHANGED netVars
    /\ userDisc' = (userDisc /\ conn_tasks[t].reconnecting)
    /\ UNCHANGED <<lastCached, lossSnap>>
    /\ UNCHANGED routerVars
    /\ UNCHANGED <<queryVars, routed>>

\* Mutant: the except branch schedules a retry whatever reconnecting is.
retry_timers_Always(reconnecting, tm) == tm + 1

\* The except branch of _connect: the retry it schedules when reconnecting.
retry_timers(reconnecting, tm) == IF reconnecting THEN tm + 1 ELSE tm

\* _resend_subscriptions_and_strategies from the iterator position of task
\* up to its next suspension, and the rest of _connect when the loop ends or
\* raises.  others are the other _connect coroutines, w is self._ws.
replay_run(task, w, chs, futs, pend, snt, unans, others, hb, tm, closedRaises) ==
    LET list == IF task.attached THEN ws_jsonrpc_cache ELSE task.old
    IN IF task.i < Len(list)
       THEN LET req == list[task.i + 1]
                s == send(req, w, chs, futs, pend, snt, unans, closedRaises)
                io == [futures |-> s.futures, pending |-> s.pending, sent |-> s.sent,
                       unanswered |-> s.unanswered]
            IN IF s.outcome = "sent"
               THEN \* result = yield self._send(req): suspended on the future
                    io @@ [held |-> TRUE, hb |-> hb, timers |-> tm,
                           tasks |-> Append(others, [task EXCEPT !.pc = "replay",
                                                                 !.i = @ + 1,
                                                                 !.fut = s.fut])]
               ELSE \* the exception leaves the loop and is caught in _connect
                    io @@ [held |-> Release(others).held, hb |-> hb,
                           timers |-> retry_timers(task.reconnecting, tm),
                           tasks |-> Release(others).tasks]
       ELSE \* loop over: "Reconnected :)", self._heart_beat_timer.start()
            [futures |-> futs, pending |-> pend, sent |-> snt, unanswered |-> unans,
             held |-> Release(others).held, hb |-> TRUE,
             timers |-> tm, tasks |-> Release(others).tasks]

ApplyReplay(r) ==
    /\ futures' = r.futures
    /\ pending_requests' = r.pending
    /\ sent' = r.sent
    /\ unanswered' = r.unanswered
    /\ lock_held' = r.held
    /\ heart_beat_running' = r.hb
    /\ timers' = r.timers
    /\ conn_tasks' = r.tasks

\* websocket_connect succeeded: _connect resumes with the new connection.
ConnectOK(t) ==
    /\ conn_tasks[t].pc = "connecting"
    /\ LET task == conn_tasks[t]
           k == Len(channels) + 1
           others == RemoveAt(conn_tasks, t)
       IN /\ ws' = k
          /\ channels' = Append(channels, "open")
          /\ IF task.reconnecting
             THEN ApplyReplay(replay_run(task, k, Append(channels, "open"), futures,
                                         pending_requests, Append(sent, <<>>),
                                         Append(unanswered, {}), others,
                                         heart_beat_running, timers, FALSE))
             ELSE /\ heart_beat_running' = TRUE
                  /\ lock_held' = Release(others).held
                  /\ conn_tasks' = Release(others).tasks
                  /\ sent' = Append(sent, <<>>)
                  /\ unanswered' = Append(unanswered, {})
                  /\ UNCHANGED <<futures, pending_requests, timers>>
    /\ UNCHANGED <<disconnect_issued, ws_jsonrpc_cache, calls, nextId, nullq>>
    /\ UNCHANGED <<lastCached, lossSnap, userDisc>>
    /\ UNCHANGED routerVars
    /\ UNCHANGED <<queryVars, routed>>

\* Mutant: a failed connection attempt empties the ledger.
ConnectFail_ClearsLedger(t) ==
    /\ conn_tasks[t].pc = "connecting"
    /\ timers' = retry_timers(conn_tasks[t].reconnecting, timers)
    /\ lock_held' = Release(RemoveAt(conn_tasks, t)).held
    /\ conn_tasks' = Release(RemoveAt(conn_tasks, t)).tasks
    /\ ws_jsonrpc_cache' = <<>>
    /\ UNCHANGED <<ws, disconnect_issued, heart_beat_running,
                   pending_requests, futures, calls, nextId>>
    /\ UNCHANGED netVars
    /\ UNCHANGED obsVars
    /\ UNCHANGED routerVars
    /\ UNCHANGED <<queryVars, routed>>

\* websocket_connect raised (refused, timed out after WS_CONNECT_TIMEOUT).
ConnectFail(t) ==
    /\ conn_tasks[t].pc = "connecting"
    /\ timers' = retry_timers(conn_tasks[t].reconnecting, timers)
    /\ lock_held' = Release(RemoveAt(conn_tasks, t)).held
    /\ conn_tasks' = Release(RemoveAt(conn_tasks, t)).tasks
    /\ UNCHANGED <<ws, disconnect_issued, heart_beat_running, ws_jsonrpc_cache,
                   pending_requests, futures, calls, nextId>>
    /\ UNCHANGED netVars
    /\ UNCHANGED obsVars
    /\ UNCHANGED routerVars
    /\ UNCHANGED <<queryVars, routed>>

\* The future a replay pass awaits is done: the pass goes on.
ReplayResume(t, closedRaises) ==
    /\ conn_tasks[t].pc = "replay"
    /\ futures[conn_tasks[t].fut].value # "pending"
    /\ ApplyReplay(replay_run(conn_tasks[t], ws, channels, futures, pending_requests,
                              sent, unanswered, RemoveAt(conn_tasks, t),
                              heart_beat_running, timers, closedRaises))
    /\ UNCHANGED <<ws, disconnect_issued, ws_jsonrpc_cache, calls, nextId, channels, nullq>>
    /\ UNCHANGED <<lastCached, lossSnap, userDisc>>
    /\ UNCHANGED routerVars
    /\ UNCHANGED <<queryVars, routed>>

\* ------------------------------------------------------- message router
Ids(cache) == [i \in 1..Len(cache) |-> cache[i].id]

\* The transport closes channel k (server gone, network fault).
ServerClose(k) ==
    /\ channels[k] = "open"
    /\ channels' = CloseChannel(k, channels)
    /\ nullq' = nullq \cup {k}
    /\ unanswered' = [unanswered EXCEPT ![k] = {}]
    /\ UNCHANGED clientVars
    /\ UNCHANGED sent
    /\ UNCHANGED obsVars
    /\ UNCHANGED routerVars
    /\ UNCHANGED <<queryVars, routed>>

\* Mutant: the closure is handled without reading self._disconnect_issued.
WebsocketMessageNone_IgnoresFlag(k) ==
    /\ k \in nullq
    /\ IF TRUE
       THEN /\ ws' = 0
            /\ channels' = IF is_connected(ws) THEN CloseChannel(ws, channels) ELSE channels
            /\ nullq' = IF is_connected(ws) /\ channels[ws] = "open"
                        THEN (nullq \ {k}) \cup {ws} ELSE nullq \ {k}
            /\ unanswered' = IF is_connected(ws)
                             THEN [unanswered EXCEPT ![ws] = {}] ELSE unanswered
            /\ lossSnap' = Ids(ws_jsonrpc_cache)
            /\ ApplyConnect(connect_call(TRUE, userDisc, 0))
       ELSE /\ nullq' = nullq \ {k}
            /\ UNCHANGED <<ws, channels, unanswered, lossSnap, lock_held,
                           heart_beat_running, disconnect_issued, conn_tasks>>
    /\ UNCHANGED <<ws_jsonrpc_cache, pending_requests, futures, timers, calls, nextId, sent>>
    /\ UNCHANGED <<lastCached, userDisc>>
    /\ UNCHANGED routerVars
    /\ UNCHANGED <<queryVars, routed>>

\* _websocket_message(None): the closure of channel k is reported.
WebsocketMessageNone(k) ==
    /\ k \in nullq
    /\ IF ~disconnect_issued
       THEN /\ ws' = 0
            /\ channels' = IF is_connected(ws) THEN CloseChannel(ws, channels) ELSE channels
            /\ nullq' = IF is_connected(ws) /\ channels[ws] = "open"
                        THEN (nullq \ {k}) \cup {ws} ELSE nullq \ {k}
            /\ unanswered' = IF is_connected(ws)
                             THEN [unanswered EXCEPT ![ws] = {}] ELSE unanswered
            /\ lossSnap' = Ids(ws_jsonrpc_cache)
            /\ ApplyConnect(connect_call(TRUE, userDisc, 0))
       ELSE /\ nullq' = nullq \ {k}
            /\ UNCHANGED <<ws, channels, unanswered, lossSnap, lock_held,
                           heart_beat_running, disconnect_issued, conn_tasks>>
    /\ UNCHANGED <<ws_jsonrpc_cache, pending_requests, futures, timers, calls, nextId, sent>>
    /\ UNCHANGED <<lastCached, userDisc>>
    /\ UNCHANGED routerVars
    /\ UNCHANGED <<queryVars, routed>>

\* _websocket_message(msg) for a JSON-RPC response {id, result, error}
\* that the server wrote to channel k in answer to request id.
Response(k, id, result, error) ==
    /\ channels[k] = "open"
    /\ id \in unanswered[k]
    /\ unanswered' = [unanswered EXCEPT ![k] = @ \ {id}]
    /\ futures' = process_json_rpc_message(futures, pending_requests, id, error, result)
    /\ UNCHANGED <<ws, disconnect_issued, heart_beat_running, ws_jsonrpc_cache,
                   pending_requests, lock_held, conn_tasks, timers, calls, nextId>>
    /\ UNCHANGED <<channels, nullq, sent>>
    /\ UNCHANGED <<lastCached, lossSnap, userDisc>>
    /\ UNCHANGED routerVars
    /\ UNCHANGED <<queryVars, routed>>

\* ---------------------------------------------------------- client calls
CachedMethods == {"subscribe", "unsubscribe", "set_sampling_strategy", "set_sampling_strategies"}

\* Mutant: the request is recorded when it is sent, before any response.
UserCall_RecordsOnSend(method, params, closedRaises) ==
    /\ LET req == JSONRPCRequest(method, params, nextId)
           s == send(req, ws, channels, futures, pending_requests, sent, unanswered,
                     closedRaises)
       IN /\ futures' = s.futures
          /\ pending_requests' = s.pending
          /\ sent' = s.sent
          /\ unanswered' = s.unanswered
          /\ calls' = IF s.outcome = "sent"
                      THEN calls \cup {[req |-> req, fut |-> s.fut]} ELSE calls
          /\ ws_jsonrpc_cache' = IF method \in CachedMethods
                                 THEN cache_jsonrpc_request(ws_jsonrpc_cache, req)
                                 ELSE ws_jsonrpc_cache
    /\ nextId' = nextId + 1
    /\ UNCHANGED <<ws, disconnect_issued, heart_beat_running, lock_held, conn_tasks, timers>>
    /\ UNCHANGED <<channels, nullq>>
    /\ UNCHANGED <<lastCached, lossSnap, userDisc>>
    /\ UNCHANGED routerVars
    /\ UNCHANGED <<queryVars, routed>>

\* add, subscribe, unsubscribe, set_sampling_strategy, set_sampling_strategies
\* up to the yield on the future _send returned.
UserCall(method, params, closedRaises) ==
    /\ LET req == JSONRPCRequest(method, params, nextId)
           s == send(req, ws, channels, futures, pending_requests, sent, unanswered,
                     closedRaises)
       IN /\ futures' = s.futures
          /\ pending_requests' = s.pending
          /\ sent' = s.sent
          /\ unanswered' = s.unanswered
          \* a failed future or a raising write ends the call with the exception
          /\ calls' = IF s.outcome = "sent"
                      THEN calls \cup {[req |-> req, fut |-> s.fut]} ELSE calls
    /\ nextId' = nextId + 1
    /\ UNCHANGED <<ws, disconnect_issued, heart_beat_running, ws_jsonrpc_cache,
                   lock_held, conn_tasks, timers>>
    /\ UNCHANGED <<channels, nullq>>
    /\ UNCHANGED <<lastCached, lossSnap, userDisc>>
    /\ UNCHANGED routerVars
    /\ UNCHANGED <<queryVars, routed>>

\* The call resumes with the result: self._cache_jsonrpc_request(req), return.
CallResume(c) ==
    /\ c \in calls
    /\ futures[c.fut].value # "pending"
    /\ calls' = calls \ {c}
    /\ IF c.req.method \in CachedMethods
       THEN ws_jsonrpc_cache' = cache_jsonrpc_request(ws_jsonrpc_cache, c.req)
       ELSE UNCHANGED ws_jsonrpc_cache
    /\ UNCHANGED <<ws, disconnect_issued, heart_beat_running, pending_requests, futures,
                   lock_held, conn_tasks, timers, nextId>>
    /\ UNCHANGED netVars
    /\ UNCHANGED <<lastCached, lossSnap, userDisc>>
    /\ UNCHANGED routerVars
    /\ UNCHANGED <<queryVars, routed>>

\* ------------------------------------------------------------ disconnect
\* Mutant: disconnect() flips self._disconnect_issued instead of setting it.
Disconnect_FlagToggled ==
    /\ heart_beat_running' = FALSE
    /\ disconnect_issued' = ~disconnect_issued
    /\ ws_jsonrpc_cache' = <<>>
    /\ IF is_connected(ws)
       THEN /\ channels' = CloseChannel(ws, channels)
            /\ nullq' = IF channels[ws] = "open" THEN nullq \cup {ws} ELSE nullq
            /\ unanswered' = [unanswered EXCEPT ![ws] = {}]
            /\ ws' = 0
       ELSE UNCHANGED <<channels, nullq, unanswered, ws>>
    \* a replay pass in progress keeps iterating over the list object it started on
    /\ conn_tasks' = [t \in 1..Len(conn_tasks) |->
                        IF conn_tasks[t].pc = "replay" /\ conn_tasks[t].attached
                        THEN [conn_tasks[t] EXCEPT !.attached = FALSE, !.old = ws_jsonrpc_cache]
                        ELSE conn_tasks[t]]
    /\ notices' = [p \in 1..Len(notices) |->
                      IF notices[p].attached
                      THEN [notices[p] EXCEPT !.attached = FALSE, !.old = ws_jsonrpc_cache]
                      ELSE notices[p]]
    /\ userDisc' = TRUE
    /\ lossSnap' = <<>>
    /\ UNCHANGED <<pending_requests, futures, lock_held, timers, calls, nextId, sent>>
    /\ UNCHANGED <<lastCached>>
    /\ UNCHANGED <<on_update, updates, orphans, sensor_history_states, hist>>
    /\ UNCHANGED <<queryVars, routed>>

\* disconnect()
Disconnect ==
    /\ heart_beat_running' = FALSE
    /\ disconnect_issued' = TRUE
    /\ ws_jsonrpc_cache' = <<>>
    /\ IF is_connected(ws)
       THEN /\ channels' = CloseChannel(ws, channels)
            /\ nullq' = IF channels[ws] = "open" THEN nullq \cup {ws} ELSE nullq
            /\ unanswered' = [unanswered EXCEPT ![ws] = {}]
            /\ ws' = 0
       ELSE UNCHANGED <<channels, nullq, unanswered, ws>>
    \* a replay pass in progress keeps iterating over the list object it started on
    /\ conn_tasks' = [t \in 1..Len(conn_tasks) |->
                        IF conn_tasks[t].pc = "replay" /\ conn_tasks[t].attached
                        THEN [conn_tasks[t] EXCEPT !.attached = FALSE, !.old = ws_jsonrpc_cache]
                        ELSE conn_tasks[t]]
    /\ notices' = [p \in 1..Len(notices) |->
                      IF notices[p].attached
                      THEN [notices[p] EXCEPT !.attached = FALSE, !.old = ws_jsonrpc_cache]
                      ELSE notices[p]]
    /\ userDisc' = TRUE
    /\ lossSnap' = <<>>
    /\ UNCHANGED <<pending_requests, futures, lock_held, timers, calls, nextId, sent>>
    /\ UNCHANGED <<lastCached>>
    /\ UNCHANGED <<on_update, updates, orphans, sensor_history_states, hist>>
    /\ UNCHANGED <<queryVars, routed>>

\* -------------------------------------------------------- inbound frames
\* Frames whose processing raises.  "unparseable": json.loads raises;
\* "no_id": msg['id'] raises; "pubsub_no_result": the id starts with
\* 'redis-pubsub' and msg['result'] raises in _process_redis_message.
FrameKinds == {"unparseable", "no_id", "pubsub_no_result"}

\* The exception is raised by a statement of the try block itself.
\* _process_redis_message and _process_json_rpc_message are coroutines that
\* _websocket_message calls without yield: what they raise is stored in the
\* future they return, which nobody reads.
RaisesInRouter(kind) == kind \in {"unparseable", "no_id"}

\* if self._on_update: self._io_loop.add_callback(self._on_update, msg)
forward(msg, on_upd, upd) == IF on_upd THEN Append(upd, msg) ELSE upd

\* _websocket_message(msg) for a frame of a kind whose processing raises.
BadFrame(k, kind) ==
    /\ channels[k] = "open"
    /\ IF RaisesInRouter(kind)
       THEN /\ updates' = forward(<<"frame", kind>>, on_update, updates)
            /\ UNCHANGED orphans
       ELSE /\ orphans' = Append(orphans, kind)
            /\ UNCHANGED updates
    /\ UNCHANGED <<clientVars, netVars, obsVars>>
    /\ UNCHANGED <<on_update, sensor_history_states, hist, notices>>
    /\ UNCHANGED <<queryVars, routed>>

\* msg_data of a publication: an inform message, a list of rows, or
\* something else.  A row has 6 fields or not; ts is its timestamp.
Row(fields, ts) == [fields |-> fields, ts |-> ts]
RowLists == {<<Row(6, 2)>>, <<Row(5, 1), Row(6, 1)>>}
PubData ==
    {[type |-> "inform", num |-> n, done |-> d, rows |-> <<>>] : n \in 0..1, d \in BOOLEAN}
        \cup {[type |-> "rows", num |-> 0, done |-> FALSE, rows |-> r] : r \in RowLists}
        \cup {[type |-> "other", num |-> 0, done |-> FALSE, rows |-> <<>>]}

\* The state sensor_history creates for its query.
NewState == [num_samples_pending |-> 0, done_event |-> FALSE, samples |-> <<>>]

\* Mutant: every row of a list message is taken for a sample.
Sixes_AllRows(rows) == rows

Sixes(rows) == SelectSeq(rows, LAMBDA r : r.fields = 6)

\* _process_redis_message for a namespace in self._sensor_history_states:
\* the query's state afterwards.
history_update(state, data) ==
    IF data.type = "inform"
    THEN [state EXCEPT !.num_samples_pending = @ + data.num,
                       !.done_event = @ \/ data.done]
    ELSE IF data.type = "rows"
    THEN [state EXCEPT
             !.samples = @ \o [j \in 1..Len(Sixes(data.rows)) |-> Sixes(data.rows)[j].ts],
             !.num_samples_pending = @ - Len(Sixes(data.rows))]
    ELSE state

\* Mutant: a publication is applied to the state of every query.
PubSub_EveryQuery(k, ns, data) ==
    /\ channels[k] = "open"
    /\ IF ns \in DOMAIN sensor_history_states
       THEN /\ sensor_history_states' =
                   [n \in DOMAIN sensor_history_states |->
                       history_update(sensor_history_states[n], data)]
            /\ UNCHANGED updates
       ELSE /\ updates' = forward(<<ns, data.type>>, on_update, updates)
            /\ UNCHANGED sensor_history_states
    /\ UNCHANGED <<clientVars, netVars, obsVars>>
    /\ UNCHANGED <<on_update, orphans, hist, notices>>
    /\ UNCHANGED <<queryVars, routed>>

\* _websocket_message(msg) for a publication: id 'redis-pubsub', result with
\* msg_channel '<ns>:...' and msg_data data.
PubSub(k, ns, data) ==
    /\ channels[k] = "open"
    /\ IF ns \in DOMAIN sensor_history_states
       THEN /\ sensor_history_states' =
                   [sensor_history_states EXCEPT ![ns] = history_update(@, data)]
            /\ UNCHANGED updates
       ELSE /\ updates' = forward(<<ns, data.type>>, on_update, updates)
            /\ UNCHANGED sensor_history_states
    /\ UNCHANGED <<clientVars, netVars, obsVars>>
    /\ UNCHANGED <<on_update, orphans, hist, notices>>
    /\ UNCHANGED <<queryVars, routed>>

\* A _resend_subscriptions coroutine.  i, attached and old are its list
\* iterator (as for _connect's replay), fut the future it awaits; snap (the
\* ids of the subscribe entries when it started), resent (the ids it handed
\* to _send) and ch (the channel then) are observers.
NoticePass(snap, ch) ==
    [i |-> 0, fut |-> 0, attached |-> TRUE, old |-> <<>>,
     snap |-> snap, resent |-> <<>>, ch |-> ch]

SubscribeIds(cache) ==
    LET subs == SelectSeq(cache, LAMBDA r : r.method = "subscribe")
    IN [j \in 1..Len(subs) |-> subs[j].id]

NextSubscribe(list, i) == {j \in (i + 1)..Len(list) : list[j].method = "subscribe"}

\* _resend_subscriptions from the iterator position of pass up to its next
\* suspension or its end ("done": the loop ended; "raised", "failed": _send
\* or the yield on its future raised).
resend_run(pass, w, chs, futs, pend, snt, unans, closedRaises) ==
    LET list == IF pass.attached THEN ws_jsonrpc_cache ELSE pass.old
        js == NextSubscribe(list, pass.i)
    IN IF js = {}
       THEN [futures |-> futs, pending |-> pend, sent |-> snt, unanswered |-> unans,
             outcome |-> "done", pass |-> pass]
       ELSE LET j == CHOOSE j \in js : \A u \in js : j <= u
                s == send(list[j], w, chs, futs, pend, snt, unans, closedRaises)
            IN [futures |-> s.futures, pending |-> s.pending, sent |-> s.sent,
                unanswered |-> s.unanswered, outcome |-> s.outcome,
                pass |-> [pass EXCEPT !.i = j, !.fut = s.fut,
                                      !.resent = IF s.outcome = "sent"
                                                 THEN Append(@, list[j].id) ELSE @]]

\* The effect of resend_run r for the pass at position p of notices
\* (p = Len(notices) + 1: a pass just started); an exception reaches the
\* except branch of _websocket_message, which forwards the frame.
ApplyResend(r, p) ==
    /\ futures' = r.futures
    /\ pending_requests' = r.pending
    /\ sent' = r.sent
    /\ unanswered' = r.unanswered
    /\ notices' = IF r.outcome = "sent"
                  THEN IF p <= Len(notices) THEN [notices EXCEPT ![p] = r.pass]
                       ELSE Append(notices, r.pass)
                  ELSE IF p <= Len(notices) THEN RemoveAt(notices, p) ELSE notices
    /\ updates' = IF r.outcome \in {"raised", "failed"}
                  THEN forward(<<"frame", "redis-reconnect">>, on_update, updates)
                  ELSE updates
    /\ UNCHANGED <<ws, disconnect_issued, heart_beat_running, ws_jsonrpc_cache,
                   lock_held, conn_tasks, timers, calls, nextId>>
    /\ UNCHANGED <<channels, nullq>>
    /\ UNCHANGED obsVars
    /\ UNCHANGED <<on_update, orphans, sensor_history_states, hist>>
    /\ UNCHANGED queryVars

\* _websocket_message(msg) for a frame whose id starts with 'redis-reconnect'.
NoticeFrame(k, closedRaises) ==
    /\ channels[k] = "open"
    /\ ApplyResend(resend_run(NoticePass(SubscribeIds(ws_jsonrpc_cache), ws), ws, channels,
                              futures, pending_requests, sent, unanswered, closedRaises),
                   Len(notices) + 1)
    /\ UNCHANGED routed

\* _resend_subscriptions resumes with the response to the request it resent.
NoticeResume(p, closedRaises) ==
    /\ futures[notices[p].fut].value # "pending"
    /\ ApplyResend(resend_run(notices[p], ws, channels, futures, pending_requests, sent,
                              unanswered, closedRaises), p)
    /\ UNCHANGED routed

\* The id of a frame is a string, modelled as a sequence of tokens none of
\* which is a prefix of another, so that prefixes of token sequences are
\* prefixes of the strings.  str(n) is the string of the request id n.
Digits == <<"1", "2", "3", "4", "5", "6", "7", "8", "9">>
str(n) == <<Digits[n]>>

\* s.startswith(prefix)
StartsWith(s, prefix) == Len(s) >= Len(prefix) /\ SubSeq(s, 1, Len(prefix)) = prefix

\* Mutant: every id that starts with 'redis-' is taken for a publication.
handler_RedisPrefix(msg_id) ==
    IF StartsWith(msg_id, <<"redis-">>) THEN "_process_redis_message"
    ELSE "_process_json_rpc_message"

\* The if/elif/else of _websocket_message: the handler a parsed frame with
\* id msg_id is given to.
handler(msg_id) ==
    IF StartsWith(msg_id, <<"redis-", "pub", "sub">>) THEN "_process_redis_message"
    ELSE IF StartsWith(msg_id, <<"redis-", "reconnect">>) THEN "_resend_subscriptions"
    ELSE "_process_json_rpc_message"

\* self._pending_requests.get(msg_id): the keys are the strings str(req.id);
\* the request id whose string msg_id is, 0 when it is no key's string.
request_key(pend, msg_id) ==
    IF \E n \in DOMAIN pend : str(n) = msg_id
    THEN CHOOSE n \in DOMAIN pend : str(n) = msg_id
    ELSE 0

\* _websocket_message(msg) for a frame that parses and has an id: m.id is
\* str(msg['id']); m.result and m.error are the members of a response, m.ns
\* and m.data the msg_channel's namespace and the msg_data of a publication
\* (m.ns is None when the result has no msg_channel).  doneRaises: whether
\* set_result on a future that is already done raises (asyncio's
\* InvalidStateError, left in the unread future of the handler) or sets the
\* value again (tornado's own Future).
WebsocketMessage(k, m, closedRaises, doneRaises) ==
    /\ channels[k] = "open"
    /\ routed' = Append(routed, [id |-> m.id, handler |-> handler(m.id)])
    /\ IF handler(m.id) = "_process_redis_message"
       THEN /\ IF m.id = <<"redis-", "pub", "sub", "-init">>
               THEN UNCHANGED <<sensor_history_states, updates>>
               ELSE IF m.ns \in DOMAIN sensor_history_states
               THEN /\ sensor_history_states' =
                           [sensor_history_states EXCEPT ![m.ns] = history_update(@, m.data)]
                    /\ UNCHANGED updates
               ELSE /\ updates' = forward(<<m.ns, m.data.type>>, on_update, updates)
                    /\ UNCHANGED sensor_history_states
            /\ UNCHANGED <<clientVars, netVars, obsVars>>
            /\ UNCHANGED <<on_update, orphans, hist, notices>>
            /\ UNCHANGED queryVars
       ELSE IF handler(m.id) = "_resend_subscriptions"
       THEN ApplyResend(resend_run(NoticePass(SubscribeIds(ws_jsonrpc_cache), ws), ws,
                                   channels, futures, pending_requests, sent, unanswered,
                                   closedRaises),
                        Len(notices) + 1)
       ELSE LET n == request_key(pending_requests, m.id)
                done == n # 0 /\ futures[pending_requests[n]].value # "pending"
            IN /\ IF done /\ doneRaises
                  THEN /\ orphans' = Append(orphans, "InvalidStateError")
                       /\ UNCHANGED futures
                  ELSE /\ futures' = process_json_rpc_message(futures, pending_requests, n,
                                                              m.error, m.result)
                       /\ UNCHANGED orphans
               /\ unanswered' = [unanswered EXCEPT ![k] = @ \ {n}]
               /\ UNCHANGED <<ws, disconnect_issued, heart_beat_running, ws_jsonrpc_cache,
                              pending_requests, lock_held, conn_tasks, timers, calls, nextId>>
               /\ UNCHANGED <<channels, nullq, sent>>
               /\ UNCHANGED obsVars
               /\ UNCHANGED <<on_update, updates, sensor_history_states, hist, notices>>
               /\ UNCHANGED queryVars

\* -------------------------------------------------------- sensor_history
\* namespace = str(uuid.uuid4()) of the h-th sensor_history call.
HistNs == <<"h1", "h2", "h3", "h4">>

\* list.insert at the place sorted() gives x: after every element that is
\* not greater (the sort is stable).
RECURSIVE Insert(_, _)
Insert(list, x) ==
    IF list = <<>> THEN <<x>>
    ELSE IF Head(list) <= x THEN <<Head(list)>> \o Insert(Tail(list), x)
    ELSE <<x>> \o list

\* Mutant: a sort that keeps one sample per timestamp.
RECURSIVE sorted_Distinct(_)
sorted_Distinct(samples) ==
    IF samples = <<>> THEN <<>>
    ELSE LET rest == sorted_Distinct(SubSeq(samples, 1, Len(samples) - 1))
             x == samples[Len(samples)]
         IN IF \E j \in 1..Len(rest) : rest[j] = x THEN rest ELSE Insert(rest, x)

\* sorted(state['samples'], key=sort_by_timestamp): a sample is modelled by
\* its timestamp.
RECURSIVE sorted(_)
sorted(samples) ==
    IF samples = <<>> THEN <<>>
    ELSE Insert(sorted(SubSeq(samples, 1, Len(samples) - 1)), samples[Len(samples)])

\* The statements between the wait and unsubscribe(): the h-th call sorts
\* its samples and warns when the limit is reached.
SortSamples(h) ==
    LET result == sorted(sensor_history_states[HistNs[h]].samples)
    IN [hist EXCEPT ![h].result = result,
                    ![h].warned = Len(result) >= MAX_SAMPLES_PER_HISTORY_QUERY]

\* A sensor_history coroutine: pc says what it awaits ("connect",
\* "subscribe", "fetch", "wait", "unsubscribe") or how it ended ("returned",
\* "timeout", "rejected", "failed"); req and fut are the request of its
\* subscribe or unsubscribe call and the future _send returned for it.
\* result is the list computed for the return, warned says that the
\* 'Maximum sample limit hit' warning was logged.
HistCall(pc) == [pc |-> pc, req |-> NoReq, fut |-> 0, result |-> <<>>, warned |-> FALSE]

Running == {"connect", "subscribe", "fetch", "wait", "unsubscribe"}

\* self.subscribe(namespace, ['*']) or self.unsubscribe(namespace, ['*'])
\* called by the h-th sensor_history, up to the yield on the future of
\* _send; an exception of the call ends sensor_history with it.
HistSend(base, h, method, closedRaises) ==
    LET req == JSONRPCRequest(method, <<HistNs[h], "*">>, nextId)
        s == send(req, ws, channels, futures, pending_requests, sent, unanswered,
                  closedRaises)
    IN /\ futures' = s.futures
       /\ pending_requests' = s.pending
       /\ sent' = s.sent
       /\ unanswered' = s.unanswered
       /\ nextId' = nextId + 1
       /\ hist' = [base EXCEPT ![h].pc = IF s.outcome = "sent" THEN method ELSE "failed",
                                ![h].req = req,
                                ![h].fut = s.fut]

\* sensor_history(...): the state is created, connect() is called and, when
\* it returns at once, subscribe() is called.
HistoryCall(closedRaises) ==
    LET h == Len(hist) + 1
        c == Owned(connect_call(FALSE, FALSE, ws), Len(conn_tasks), h)
    IN /\ sensor_history_states' =
              [ns \in DOMAIN sensor_history_states \cup {HistNs[h]} |->
                  IF ns = HistNs[h] THEN NewState ELSE sensor_history_states[ns]]
       /\ ApplyConnect(c)
       /\ userDisc' = FALSE
       /\ IF Len(c.tasks) > Len(conn_tasks)
          THEN /\ hist' = Append(hist, HistCall("connect"))
               /\ UNCHANGED <<futures, pending_requests, sent, unanswered, nextId>>
          ELSE HistSend(Append(hist, HistCall("connect")), h, "subscribe", closedRaises)
       /\ UNCHANGED <<ws, ws_jsonrpc_cache, timers, calls>>
       /\ UNCHANGED <<channels, nullq>>
       /\ UNCHANGED <<lastCached, lossSnap>>
       /\ UNCHANGED <<on_update, updates, orphans, notices>>
       /\ UNCHANGED <<queryVars, routed>>

\* The _connect that sensor_history awaits has returned: subscribe() is called.
HistConnected(h, closedRaises) ==
    /\ hist[h].pc = "connect"
    /\ \A t \in 1..Len(conn_tasks) : conn_tasks[t].owner # h
    /\ HistSend(hist, h, "subscribe", closedRaises)
    /\ UNCHANGED <<ws, disconnect_issued, heart_beat_running, ws_jsonrpc_cache,
                   lock_held, conn_tasks, timers, calls>>
    /\ UNCHANGED <<channels, nullq>>
    /\ UNCHANGED obsVars
    /\ UNCHANGED <<on_update, updates, orphans, sensor_history_states, notices>>
    /\ UNCHANGED <<queryVars, routed>>

\* subscribe() resumes with the response and records the request; the
\* history request is fetched over HTTP.
HistSubscribed(h) ==
    /\ hist[h].pc = "subscribe"
    /\ futures[hist[h].fut].value # "pending"
    /\ ws_jsonrpc_cache' = cache_jsonrpc_request(ws_jsonrpc_cache, hist[h].req)
    /\ hist' = [hist EXCEPT ![h].pc = "fetch"]
    /\ UNCHANGED <<ws, disconnect_issued, heart_beat_running, pending_requests, futures,
                   lock_held, conn_tasks, timers, calls, nextId>>
    /\ UNCHANGED netVars
    /\ UNCHANGED obsVars
    /\ UNCHANGED <<on_update, updates, orphans, sensor_history_states, notices>>
    /\ UNCHANGED <<queryVars, routed>>

\* The outcomes of self._http_client.fetch(url): the portal accepts the
\* query, answers without 'success', or the fetch raises.
FetchOutcomes == {"success", "rejected", "error"}

\* The fetch returns.  On success sensor_history waits for the done event,
\* or sorts the samples and goes on to unsubscribe() when the event is
\* already set.
HistFetched(h, outcome, closedRaises) ==
    /\ hist[h].pc = "fetch"
    /\ IF outcome = "success" /\ sensor_history_states[HistNs[h]].done_event
       THEN HistSend(SortSamples(h), h, "unsubscribe", closedRaises)
       ELSE /\ hist' = [hist EXCEPT ![h].pc = IF outcome = "success" THEN "wait"
                                              ELSE IF outcome = "rejected" THEN "rejected"
                                              ELSE "failed"]
            /\ UNCHANGED <<futures, pending_requests, sent, unanswered, nextId>>
    /\ UNCHANGED <<ws, disconnect_issued, heart_beat_running, ws_jsonrpc_cache,
                   lock_held, conn_tasks, timers, calls>>
    /\ UNCHANGED <<channels, nullq>>
    /\ UNCHANGED obsVars
    /\ UNCHANGED <<on_update, updates, orphans, sensor_history_states, notices>>
    /\ UNCHANGED <<queryVars, routed>>

\* state['done_event'].wait(timeout) returns: the samples are sorted and
\* unsubscribe() is called.
HistDone(h, closedRaises) ==
    /\ hist[h].pc = "wait"
    /\ sensor_history_states[HistNs[h]].done_event
    /\ HistSend(SortSamples(h), h, "unsubscribe", closedRaises)
    /\ UNCHANGED <<ws, disconnect_issued, heart_beat_running, ws_jsonrpc_cache,
                   lock_held, conn_tasks, timers, calls>>
    /\ UNCHANGED <<channels, nullq>>
    /\ UNCHANGED obsVars
    /\ UNCHANGED <<on_update, updates, orphans, sensor_history_states, notices>>
    /\ UNCHANGED <<queryVars, routed>>

\* state['done_event'].wait(timeout) raises tornado.gen.TimeoutError:
\* sensor_history raises SensorHistoryRequestError.
HistTimeout(h) ==
    /\ hist[h].pc = "wait"
    /\ ~sensor_history_states[HistNs[h]].done_event
    /\ hist' = [hist EXCEPT ![h].pc = "timeout"]
    /\ UNCHANGED <<clientVars, netVars, obsVars>>
    /\ UNCHANGED <<on_update, updates, orphans, sensor_history_states, notices>>
    /\ UNCHANGED <<queryVars, routed>>

\* unsubscribe() resumes with the response and records the request; the
\* state is deleted and sensor_history returns.
HistUnsubscribed(h) ==
    /\ hist[h].pc = "unsubscribe"
    /\ futures[hist[h].fut].value # "pending"
    /\ ws_jsonrpc_cache' = cache_jsonrpc_request(ws_jsonrpc_cache, hist[h].req)
    /\ sensor_history_states' =
           [ns \in DOMAIN sensor_history_states \ {HistNs[h]} |-> sensor_history_states[ns]]
    /\ hist' = [hist EXCEPT ![h].pc = "returned"]
    /\ UNCHANGED <<ws, disconnect_issued, heart_beat_running, pending_requests, futures,
                   lock_held, conn_tasks, timers, calls, nextId>>
    /\ UNCHANGED netVars
    /\ UNCHANGED obsVars
    /\ UNCHANGED <<on_update, updates, orphans, notices>>
    /\ UNCHANGED <<queryVars, routed>>

\* ----------------------------------------------------- sensors_histories
\* The binding of sensor_history's parameters (sensor_name, start_time_sec,
\* end_time_sec, include_value_ts=False, timeout_sec=300) to the positional
\* arguments of a call.
sensor_history_args(positional) ==
    [include_value_ts |-> IF Len(positional) >= 4 THEN positional[4] ELSE PyBool(FALSE),
     timeout_sec |-> IF Len(positional) >= 5 THEN positional[5]
                     ELSE PyNum(SENSOR_HISTORY_TIMEOUT_SEC)]

\* if state['include_value_ts']: SensorSampleValueTs(...) else: SensorSample(...)
sample_shape(include_value_ts) ==
    IF Truthy(include_value_ts) THEN "SensorSampleValueTs" ELSE "SensorSample"

\* The lists sensor_names(filters) may return.
SensorLists == {<<>>, <<"s1">>, <<"s1", "s2">>}

\* The body of the loop of sensors_histories for the i-th sensor, up to the
\* yield on sensor_history.
history_call(b, i) ==
    LET elapsed_time_sec == now - b.request_start_sec
        timeout_left_sec == b.timeout_sec - elapsed_time_sec
    IN [b EXCEPT !.pc = "history", !.i = i, !.started = now,
                 !.call = sensor_history_args(<<PyNone, PyNone, PyNone,
                                                PyNum(timeout_left_sec)>>)]

\* The loop of sensors_histories from the i-th sensor on.
histories_loop(b, i) ==
    IF i <= Len(b.sensors) THEN history_call(b, i) ELSE [b EXCEPT !.pc = "returned"]

\* time.time() advances.
Tick ==
    /\ now' = now + 1
    /\ UNCHANGED <<clientVars, netVars, obsVars, routerVars, batch, lookup, routed>>

\* sensors_histories(filters, start, end, include_value_ts, timeout_sec) up
\* to the yield on sensor_names.
SensorsHistories(include_value_ts, timeout_sec) ==
    /\ batch.pc = "idle"
    /\ batch' = [batch EXCEPT !.pc = "names", !.include_value_ts = include_value_ts,
                               !.timeout_sec = timeout_sec, !.request_start_sec = now]
    /\ UNCHANGED <<clientVars, netVars, obsVars, routerVars, now, lookup, routed>>

\* sensor_names returns: the first sensor_history call is made, or the empty
\* dictionary is returned.
SensorNames(sensors) ==
    /\ batch.pc = "names"
    /\ batch' = histories_loop([batch EXCEPT !.sensors = sensors], 1)
    /\ UNCHANGED <<clientVars, netVars, obsVars, routerVars, now, lookup, routed>>

\* The sensor_history call returns before its own timeout: its samples have
\* the shape its include_value_ts selected; the next call is made.
SensorHistoryReturns ==
    /\ batch.pc = "history"
    /\ now - batch.started <= batch.call.timeout_sec.n
    /\ batch' = histories_loop(
                    [batch EXCEPT !.histories =
                        Append(@, [sensor |-> batch.sensors[batch.i],
                                   shape |-> sample_shape(batch.call.include_value_ts)])],
                    batch.i + 1)
    /\ UNCHANGED <<clientVars, netVars, obsVars, routerVars, now, lookup, routed>>

\* The sensor_history call ends with SensorHistoryRequestError when its own
\* timeout has passed; sensors_histories ends with it.
SensorHistoryTimesOut ==
    /\ batch.pc = "history"
    /\ now - batch.started >= batch.call.timeout_sec.n
    /\ batch' = [batch EXCEPT !.pc = "raised"]
    /\ UNCHANGED <<clientVars, netVars, obsVars, routerVars, now, lookup, routed>>

\* ------------------------------------------------ sensor_subarray_lookup
\* raise cls(*args): the exception that reaches the caller.
\* SubarrayNumberUnknown.__init__(self, method_name) takes one argument, and
\* its body names SelectBandError, which is defined nowhere.
raised_by(cls, args) ==
    IF cls = "SubarrayNumberUnknown"
    THEN IF Len(args) # 1 THEN "TypeError" ELSE "NameError"
    ELSE cls

\* sensor_subarray_lookup(component, sensor, return_katcp_name, sub_nr) with
\* sitemap['sub_nr'] = sitemap_sub_nr, up to the yield on the fetch.
SensorSubarrayLookup(sub_nr, sitemap_sub_nr) ==
    /\ lookup.pc # "fetch"
    /\ LET nr == IF sub_nr = PyNone THEN PyNum(sitemap_sub_nr) ELSE sub_nr
       IN lookup' = IF ~Truthy(nr)
                    THEN [pc |-> "raised", sub_nr |-> nr,
                          raised |-> raised_by("SubarrayNumberUnknown", <<>>), fetches |-> 0]
                    ELSE [pc |-> "fetch", sub_nr |-> nr, raised |-> None, fetches |-> 1]
    /\ UNCHANGED <<clientVars, netVars, obsVars, routerVars, now, batch, routed>>

\* The fetch returns: response.body is returned.
LookupFetched ==
    /\ lookup.pc = "fetch"
    /\ lookup' = [lookup EXCEPT !.pc = "returned"]
    /\ UNCHANGED <<clientVars, netVars, obsVars, routerVars, now, batch, routed>>

\* ------------------------------------------- the ledger specification
\* The requests recorded in the ledger specification (method, params).
LedgerCalls ==
    ({"subscribe", "unsubscribe"} \X {<<"n1", "x">>, <<"n1", "y">>, <<"n2", "x">>})
    \cup ({"set_sampling_strategy"} \X StratParams)
    \cup ({"set_sampling_strategies"} \X
              {<<n, "s1", st, FALSE>> : n \in Namespaces, st \in {"event", "none"}})

\* self._cache_jsonrpc_request(req) applied to a freshly built request.
RecordRequest(method, params) ==
    /\ LET req == JSONRPCRequest(method, params, nextId)
           after == cache_jsonrpc_request(ws_jsonrpc_cache, req)
       IN /\ ws_jsonrpc_cache' = after
          /\ lastCached' = [req |-> req, before |-> ws_jsonrpc_cache, after |-> after]
    /\ nextId' = nextId + 1
    /\ UNCHANGED <<ws, disconnect_issued, heart_beat_running, pending_requests, futures,
                   lock_held, conn_tasks, timers, calls>>
    /\ UNCHANGED netVars
    /\ UNCHANGED <<lossSnap, userDisc>>
    /\ UNCHANGED routerVars
    /\ UNCHANGED <<queryVars, routed>>

NextLedger ==
    \/ nextId <= MaxLedgerOps /\ \E c \in LedgerCalls : RecordRequest(c[1], c[2])
    \/ Disconnect

SpecLedger == Init /\ [][NextLedger]_vars

\* --------------------------------------------------- claims on the ledger
Keys(cache) == {method_and_params_hash(cache[i]) : i \in 1..Len(cache)}

\* C2: the ledger never holds two entries with the same (method, params), and
\* recording a request whose (method, params) is already cached leaves the
\* ledger as it was (one entry, at the first entry's position).
C2_LedgerUnique ==
    /\ \A i, j \in 1..Len(ws_jsonrpc_cache) :
           method_and_params_hash(ws_jsonrpc_cache[i]) = method_and_params_hash(ws_jsonrpc_cache[j])
               => i = j
    /\ method_and_params_hash(lastCached.req) \in Keys(lastCached.before)
           => lastCached.after = lastCached.before

\* C2 witness: a duplicate of the first of two cached entries was recorded.
C2_Witness ==
    /\ Len(lastCached.before) >= 2
    /\ method_and_params_hash(lastCached.req) = method_and_params_hash(lastCached.before[1])
    /\ lastCached.req.id # lastCached.before[1].id
    /\ ws_jsonrpc_cache = lastCached.before

\* C3: recording unsubscribe(ns, p) removes exactly the cached subscribe with
\* identical params, leaves every other entry in place and in order, and no
\* unsubscribe request is ever in the ledger.
C3_Cancellation ==
    /\ \A i \in 1..Len(ws_jsonrpc_cache) : ws_jsonrpc_cache[i].method # "unsubscribe"
    /\ lastCached.req.method = "unsubscribe" =>
           lastCached.after =
               SelectSeq(lastCached.before,
                         LAMBDA q : ~(q.method = "subscribe" /\ q.params = lastCached.req.params))

\* C3 witness: an unsubscribe cancelled a cached subscribe and left a
\* subscribe with other params of the same namespace in place.
C3_Witness ==
    /\ lastCached.req.method = "unsubscribe"
    /\ \E i \in 1..Len(lastCached.before) :
           /\ lastCached.before[i].method = "subscribe"
           /\ lastCached.before[i].params = lastCached.req.params
    /\ \E i \in 1..Len(lastCached.after) :
           /\ lastCached.after[i].method = "subscribe"
           /\ lastCached.after[i].params[1] = lastCached.req.params[1]

IsClearing(req) == StartsWithSetSamplingStrat(req.method) /\ req.params[3] = "none"

\* C4: recording a strategy request whose strategy is 'none' removes exactly
\* the entries of the same method and the same (namespace, sensor) pair,
\* leaves all others in place and in order, and no 'none' request is cached.
C4_StrategyClearing ==
    /\ \A i \in 1..Len(ws_jsonrpc_cache) : ~IsClearing(ws_jsonrpc_cache[i])
    /\ IsClearing(lastCached.req) =>
           lastCached.after =
               SelectSeq(lastCached.before,
                         LAMBDA q : ~(/\ q.method = lastCached.req.method
                                      /\ q.params[1] = lastCached.req.params[1]
                                      /\ q.params[2] = lastCached.req.params[2]))

\* C4 witness: a 'none' request removed a cached strategy while an entry of
\* the other strategy method for the same (namespace, sensor) stayed.
C4_Witness ==
    /\ IsClearing(lastCached.req)
    /\ Len(lastCached.after) < Len(lastCached.before)
    /\ \E i \in 1..Len(lastCached.after) :
           /\ StartsWithSetSamplingStrat(lastCached.after[i].method)
           /\ lastCached.after[i].method # lastCached.req.method
           /\ lastCached.after[i].params[1] = lastCached.req.params[1]
           /\ lastCached.after[i].params[2] = lastCached.req.params[2]

\* ------------------------------------------------ the client specification
\* The calls the caller makes in the client specification (method, params).
ClientCalls ==
    {<<"subscribe", <<"n1", "x">>>>,
     <<"unsubscribe", <<"n1", "x">>>>,
     <<"set_sampling_strategy", <<"n1", "s1", "event", FALSE>>>>}

Channels == 1..Len(channels)
Tasks == 1..Len(conn_tasks)

\* The bounds of the client specifications, on the state a step leads to.
WithinBounds ==
    /\ Len(channels) <= MaxChan
    /\ Len(futures) <= MaxFut
    /\ timers <= MaxTimers
    /\ nextId <= MaxId + 1

\* The steps of the client and of its environment, disconnect() apart.
NextReconnect ==
    /\ \/ Len(conn_tasks) < MaxConnTasks /\ UserConnect
       \/ TimerFire
       \/ \E t \in Tasks : LockResume(t)
       \/ \E t \in Tasks : ConnectOK(t)
       \/ \E t \in Tasks : ConnectFail(t)
       \/ \E t \in Tasks, b \in BOOLEAN : ReplayResume(t, b)
       \/ \E k \in Channels : ServerClose(k)
       \/ \E k \in Channels : WebsocketMessageNone(k)
       \/ \E k \in Channels, id \in 1..MaxId : Response(k, id, "r1", None)
       \/ \E c \in ClientCalls, b \in BOOLEAN : UserCall(c[1], c[2], b)
       \/ \E c \in calls : CallResume(c)
    /\ WithinBounds'

Next ==
    \/ NextReconnect
    \/ Disconnect

\* The client whose caller never calls disconnect().
SpecReconnect == Init /\ [][NextReconnect]_vars

Spec == Init /\ [][Next]_vars

\* ------------------------------------------- the correlator specification
\* One channel, calls of add and subscribe, and responses of every payload.
CorrCalls == {<<"add", <<"1", "2">>>>, <<"subscribe", <<"n1", "x">>>>}

\* The (result, error) members of the responses the server writes.
Payloads == {<<"r1", None>>, <<"r2", None>>, <<None, "e1">>}

WithinCorrBounds ==
    /\ Len(channels) <= MaxCorrChan
    /\ nextId <= MaxCorrId + 1

NextCorr ==
    /\ \/ conn_tasks = <<>> /\ UserConnect
       \/ \E t \in Tasks : ConnectOK(t)
       \/ \E c \in CorrCalls : UserCall(c[1], c[2], TRUE)
       \/ \E k \in Channels, id \in 1..MaxCorrId, p \in Payloads :
              Response(k, id, p[1], p[2])
       \/ \E c \in calls : CallResume(c)
    /\ WithinCorrBounds'

SpecCorr == Init /\ [][NextCorr]_vars

\* ------------------------------------------- the reconnection under fairness
\* One subscribe call, no disconnect(), and room for two reconnections.
WithinLiveBounds ==
    /\ Len(channels) <= MaxLiveChan
    /\ Len(futures) <= MaxFut
    /\ timers <= MaxTimers
    /\ nextId <= MaxLiveId + 1

LiveTimerFire == TimerFire /\ WithinLiveBounds'
LiveLockResume == (\E t \in Tasks : LockResume(t)) /\ WithinLiveBounds'
LiveConnectOK == (\E t \in Tasks : ConnectOK(t)) /\ WithinLiveBounds'
LiveConnectFail == (\E t \in Tasks : ConnectFail(t)) /\ WithinLiveBounds'
LiveReplayResume ==
    (\E t \in Tasks, b \in BOOLEAN : ReplayResume(t, b)) /\ WithinLiveBounds'
LiveServerClose == (\E k \in Channels : ServerClose(k)) /\ WithinLiveBounds'
LiveWebsocketMessageNone ==
    (\E k \in Channels : WebsocketMessageNone(k)) /\ WithinLiveBounds'
LiveResponse ==
    (\E k \in Channels, id \in 1..MaxLiveId : Response(k, id, "r1", None))
        /\ WithinLiveBounds'
LiveUserCall ==
    (\E b \in BOOLEAN : UserCall("subscribe", <<"n1", "x">>, b)) /\ WithinLiveBounds'
LiveCallResume == (\E c \in calls : CallResume(c)) /\ WithinLiveBounds'

NextLive ==
    \/ conn_tasks = <<>> /\ UserConnect /\ WithinLiveBounds'
    \/ LiveTimerFire
    \/ LiveLockResume
    \/ LiveConnectOK
    \/ LiveConnectFail
    \/ LiveReplayResume
    \/ LiveServerClose
    \/ LiveWebsocketMessageNone
    \/ LiveResponse
    \/ LiveUserCall
    \/ LiveCallResume

\* The IOLoop runs every callback that is due (timers, lock hand-offs,
\* resumptions, closure notices), the server answers the requests on an open
\* channel, and it accepts a connection if attempts keep being made.
FairLive ==
    /\ WF_vars(LiveTimerFire)
    /\ WF_vars(LiveLockResume)
    /\ WF_vars(LiveReplayResume)
    /\ WF_vars(LiveWebsocketMessageNone)
    /\ WF_vars(LiveResponse)
    /\ WF_vars(LiveCallResume)
    /\ SF_vars(LiveConnectOK)

SpecLive == Init /\ [][NextLive]_vars /\ FairLive

\* ----------------------------------------------- the history specification
\* One sensor_history call, publications on its namespace and on another
\* one, and a server that may close the channel.
PubNs == {"h1", "n1"}

Hists == 1..Len(hist)

WithinHistBounds ==
    /\ Len(hist) <= MaxHist
    /\ Len(channels) <= MaxHistChan
    /\ nextId <= MaxHistId + 1
    /\ Len(updates) <= MaxUpdates
    /\ \A ns \in DOMAIN sensor_history_states :
           /\ Len(sensor_history_states[ns].samples) <= MaxSamples
           /\ sensor_history_states[ns].num_samples_pending \in -MaxPending..MaxPending

NextHistory ==
    /\ \/ \E b \in BOOLEAN : HistoryCall(b)
       \/ \E t \in Tasks : ConnectOK(t)
       \/ \E t \in Tasks : ConnectFail(t)
       \/ \E k \in Channels : ServerClose(k)
       \/ \E k \in Channels, id \in 1..MaxHistId : Response(k, id, "r1", None)
       \/ \E h \in Hists, b \in BOOLEAN : HistConnected(h, b)
       \/ \E h \in Hists : HistSubscribed(h)
       \/ \E h \in Hists, o \in FetchOutcomes, b \in BOOLEAN : HistFetched(h, o, b)
       \/ \E h \in Hists, b \in BOOLEAN : HistDone(h, b)
       \/ \E h \in Hists : HistTimeout(h)
       \/ \E h \in Hists : HistUnsubscribed(h)
       \/ \E k \in Channels, ns \in PubNs, d \in PubData : PubSub(k, ns, d)
    /\ WithinHistBounds'

SpecHistory == InitRouter /\ [][NextHistory]_vars

\* ------------------------------------------------ the router specification
\* One channel, calls that fill and change the ledger, and broker-reconnect
\* notices; an update callback is registered.
RouterCalls ==
    {<<"subscribe", <<"n1", "x">>>>,
     <<"subscribe", <<"n2", "x">>>>,
     <<"unsubscribe", <<"n1", "x">>>>,
     <<"set_sampling_strategy", <<"n1", "s1", "event", FALSE>>>>}

Notices == 1..Len(notices)

WithinRouterBounds ==
    /\ Len(channels) <= MaxRouterChan
    /\ nextId <= MaxRouterId + 1
    /\ Len(futures) <= MaxRouterFut
    /\ Len(updates) <= MaxUpdates

NextRouter ==
    /\ \/ conn_tasks = <<>> /\ UserConnect
       \/ \E t \in Tasks : ConnectOK(t)
       \/ \E c \in RouterCalls, b \in BOOLEAN : UserCall(c[1], c[2], b)
       \/ \E k \in Channels, id \in 1..MaxRouterId : Response(k, id, "r1", None)
       \/ \E c \in calls : CallResume(c)
       \/ \E k \in Channels : ServerClose(k)
       \/ \E k \in Channels, b \in BOOLEAN : Len(notices) < MaxNotices /\ NoticeFrame(k, b)
       \/ \E p \in Notices, b \in BOOLEAN : NoticeResume(p, b)
    /\ WithinRouterBounds'

SpecRouter == Init /\ [][NextRouter]_vars

\* ------------------------------------------------ the frames specification
\* One channel, with or without an update callback: frames whose processing
\* raises, publications, and a subscribe call with its response.
WithinFrameBounds ==
    /\ Len(channels) <= MaxFrameChan
    /\ nextId <= MaxFrameId + 1
    /\ Len(updates) <= MaxUpdates
    /\ Len(orphans) <= MaxOrphans

NextFrames ==
    /\ \/ conn_tasks = <<>> /\ UserConnect
       \/ \E t \in Tasks : ConnectOK(t)
       \/ \E k \in Channels : ServerClose(k)
       \/ \E b \in BOOLEAN : UserCall("subscribe", <<"n1", "x">>, b)
       \/ \E k \in Channels, id \in 1..MaxFrameId : Response(k, id, "r1", None)
       \/ \E c \in calls : CallResume(c)
       \/ \E k \in Channels, kind \in FrameKinds : BadFrame(k, kind)
       \/ \E k \in Channels, d \in PubData : PubSub(k, "n1", d)
    /\ WithinFrameBounds'

SpecFrames == InitRouter /\ [][NextFrames]_vars

\* ------------------------------------------- the replaying specification
\* Reconnections with their full replay, broker-reconnect notices,
\* disconnect(), and calls that record a subscription and a strategy.
ReplayCalls ==
    {<<"subscribe", <<"n1", "x">>>>,
     <<"set_sampling_strategy", <<"n1", "s1", "event", FALSE>>>>}

NextReplay ==
    \/ /\ \/ conn_tasks = <<>> /\ UserConnect
          \/ TimerFire
          \/ \E t \in Tasks : LockResume(t)
          \/ \E t \in Tasks : ConnectOK(t)
          \/ \E t \in Tasks : ConnectFail(t)
          \/ \E t \in Tasks, b \in BOOLEAN : ReplayResume(t, b)
          \/ \E k \in Channels : ServerClose(k)
          \/ \E k \in Channels : WebsocketMessageNone(k)
          \/ \E k \in Channels, id \in 1..MaxId : Response(k, id, "r1", None)
          \/ \E c \in ReplayCalls, b \in BOOLEAN : UserCall(c[1], c[2], b)
          \/ \E c \in calls : CallResume(c)
          \/ \E k \in Channels, b \in BOOLEAN : Len(notices) < MaxNotices /\ NoticeFrame(k, b)
          \/ \E p \in Notices, b \in BOOLEAN : NoticeResume(p, b)
       /\ WithinBounds'
    \/ Disconnect

SpecReplay == Init /\ [][NextReplay]_vars

\* ----------------------------------------------- the inbound specification
\* One channel, requests, and parsed frames of every id: publications,
\* broker-reconnect notices, responses (first, repeated and unmatched).
FrameIds ==
    {<<"redis-", "pub", "sub">>, <<"redis-", "pub", "sub", "-init">>,
     <<"redis-", "reconnect">>, <<"redis-", "reconnect", "-init">>,
     <<"redis-">>, <<"redis-", "pub">>, <<"pub", "sub">>}
        \cup {str(n) : n \in 1..(MaxInboundId + 1)}

NoData == [type |-> "other", num |-> 0, done |-> FALSE, rows |-> <<>>]

Messages ==
    {[id |-> i, result |-> p[1], error |-> p[2], ns |-> None, data |-> NoData] :
        i \in FrameIds, p \in {<<"r1", None>>, <<None, "e1">>}}
    \cup {[id |-> i, result |-> "r1", error |-> None, ns |-> "n1", data |-> d] :
              i \in {<<"redis-", "pub", "sub">>, <<"redis-", "pub", "sub", "-init">>},
              d \in {x \in PubData : x.type = "rows"}}

WithinInboundBounds ==
    /\ Len(channels) <= MaxInboundChan
    /\ nextId <= MaxInboundId + 1
    /\ Len(routed) <= MaxRouted
    /\ Len(orphans) <= MaxOrphans
    /\ Len(notices) <= MaxNotices

NextInbound ==
    /\ \/ conn_tasks = <<>> /\ UserConnect
       \/ \E t \in Tasks : ConnectOK(t)
       \/ \E b \in BOOLEAN : UserCall("subscribe", <<"n1", "x">>, b)
       \/ \E c \in calls : CallResume(c)
       \/ \E k \in Channels, m \in Messages, b, d \in BOOLEAN : WebsocketMessage(k, m, b, d)
       \/ \E p \in Notices, b \in BOOLEAN : NoticeResume(p, b)
    /\ WithinInboundBounds'

SpecInbound == Init /\ [][NextInbound]_vars

\* ----------------------------------------------- the queries specification
\* A sensors_histories call and sensor_subarray_lookup calls, with a clock.
SubNrs == {PyNone} \cup {PyNum(x) : x \in 0..MaxSubNr}

NextQueries ==
    \/ now < MaxClock /\ Tick
    \/ \E f \in BOOLEAN, t \in 1..MaxBatchTimeout : SensorsHistories(f, t)
    \/ \E l \in SensorLists : SensorNames(l)
    \/ SensorHistoryReturns
    \/ SensorHistoryTimesOut
    \/ \E a \in SubNrs, x \in 0..MaxSubNr : SensorSubarrayLookup(a, x)
    \/ LookupFetched

SpecQueries == Init /\ [][NextQueries]_vars

\* --------------------------------------------------- claims on the client
\* a is a subsequence of b.
RECURSIVE IsSubSeq(_, _)
IsSubSeq(a, b) ==
    IF a = <<>> THEN TRUE
    ELSE IF b = <<>> THEN FALSE
    ELSE IF Head(a) = Head(b) THEN IsSubSeq(Tail(a), Tail(b))
    ELSE IsSubSeq(a, Tail(b))

CachedIds == {ws_jsonrpc_cache[i].id : i \in 1..Len(ws_jsonrpc_cache)}

\* C1 (as claimed): once the client is connected again after a transport loss
\* and no connection attempt holds the lock, the entries that were in the
\* ledger at the loss (and still are) have been written to the current
\* channel, in ledger order.
C1_ReplayedAfterLoss ==
    (is_connected(ws) /\ ~lock_held /\ lossSnap # <<>>)
        => IsSubSeq(SelectSeq(lossSnap, LAMBDA id : id \in CachedIds), sent[ws])

\* C5 (as claimed): while disconnect() is the caller's last word, no
\* reconnect attempt that began after it opens a channel.
C5_NoReconnectAfterDisconnect ==
    [][\A t \in Tasks :
          (conn_tasks[t].pc = "connecting" /\ conn_tasks[t].auto /\ userDisc)
              => Len(channels') = Len(channels)]_vars

ReplayList(task) == IF task.attached THEN ws_jsonrpc_cache ELSE task.old

\* C7 (as claimed): a full replay pass ends only when every entry of the
\* ledger has been resent, and then the heartbeat is started and no retry
\* is scheduled, whatever happened to the individual entries.
C7_ReplayToleratesFailure ==
    [][\A t \in Tasks :
          (/\ conn_tasks[t].pc = "replay"
           /\ \A u \in 1..Len(conn_tasks') : conn_tasks'[u].pc # "replay")
              => /\ conn_tasks[t].i >= Len(ReplayList(conn_tasks[t]))
                 /\ timers' = timers
                 /\ heart_beat_running']_vars

\* C8: a step in which no channel is open before and after leaves the
\* pending-operations map and every channel's writes as they were and
\* creates no pending future; a call made in such a step has ended (with the
\* "not connected" failure) instead of awaiting a response.
C8_SendWhileDisconnected ==
    [][(~is_connected(ws) /\ ~is_connected(ws'))
          => /\ pending_requests' = pending_requests
             /\ sent' = sent
             /\ Len(futures') = Len(futures)
             /\ (nextId' # nextId => calls' = calls)]_vars

\* C8 witness: a call was made before any channel was ever opened, and
\* nothing is pending.
C8_Witness ==
    /\ nextId = 2
    /\ channels = <<>>
    /\ DOMAIN pending_requests = {}
    /\ calls = {}

\* C6 (as claimed): under the fairness of SpecLive and with no disconnect(),
\* a client that lost its channel eventually holds a channel again (or the
\* model has run out of channels).
C6_EventuallyReconnected ==
    (~is_connected(ws) /\ channels # <<>>)
        ~> (is_connected(ws) \/ Len(channels) = MaxLiveChan)

\* C9: a future leaves the pending state only in the step that processes a
\* response carrying the id the future was registered under, and its value
\* is that response's payload; a response resolves no future of another id.
C9_IndependentCorrelation ==
    [][\A f \in 1..Len(futures) :
          (futures[f].value = "pending" /\ futures'[f].value # "pending")
              => \E k \in Channels, p \in Payloads :
                    /\ Response(k, futures[f].id, p[1], p[2])
                    /\ futures'[f].value = (IF p[2] # None THEN p[2] ELSE p[1])]_vars

\* C9 witness: two requests with distinct ids were written to the channel,
\* the second was answered first and the first is still pending.
C9_Witness ==
    \E f, g \in 1..Len(futures) :
        /\ f < g
        /\ futures[f].id # futures[g].id
        /\ futures[f].value = "pending"
        /\ futures[g].value = "e1"
        /\ is_connected(ws)
        /\ futures[f].id \in unanswered[ws]

\* C10: at most one _connect coroutine awaits websocket_connect, it holds the
\* lock and the client holds no channel meanwhile; every channel that was
\* opened and not closed is the one self._ws refers to.
C10_ConnectMutex ==
    /\ Cardinality({t \in Tasks : conn_tasks[t].pc = "connecting"}) <= 1
    /\ \A t \in Tasks : conn_tasks[t].pc = "connecting" => (lock_held /\ ~is_connected(ws))
    /\ \A k \in Channels : channels[k] = "open" => ws = k

\* C10 witness: a connect() that overlapped an attempt which succeeded has
\* been handed the lock; one channel exists.
C10_Witness ==
    /\ ws = 1
    /\ channels = <<"open">>
    /\ \E t \in Tasks : conn_tasks[t].pc = "locked" /\ ~conn_tasks[t].reconnecting

\* ------------------------------------------ claims on disconnect and retry
\* What disconnect() leaves: no heartbeat, the flag set, an empty ledger and
\* no channel handle.
AfterDisconnect ==
    /\ ~heart_beat_running
    /\ disconnect_issued
    /\ ws_jsonrpc_cache = <<>>
    /\ ~is_connected(ws)

\* C11: every disconnect() step, whatever state it starts from, ends in a
\* state where the heartbeat is stopped, the disconnect-issued flag is set,
\* the ledger is empty and the client holds no channel.
C11_DisconnectPostcondition == [][Disconnect => AfterDisconnect']_vars

\* C11 witness: disconnect() closed a channel that was open, after requests
\* had been made; the closure is still to be reported.
C11_Witness ==
    /\ AfterDisconnect
    /\ userDisc
    /\ nextId > 1
    /\ \E k \in Channels : k \in nullq /\ sent[k] # <<>>

\* C12: a disconnect() called in the state a disconnect() left changes
\* nothing of the client nor of any channel.
C12_DisconnectIdempotent ==
    [][(AfterDisconnect /\ userDisc /\ Disconnect) => UNCHANGED <<clientVars, netVars>>]_vars

\* C12 witness: disconnect() is the caller's last call, made after a
\* reconnection, with a retry timer still outstanding.
C12_Witness ==
    /\ AfterDisconnect
    /\ userDisc
    /\ Len(channels) = MaxChan
    /\ timers > 0

\* C13: a failed attempt of connect() (reconnecting false) schedules no
\* retry and leaves the client not connected; a retry timer is only ever
\* added by the step that ends a _connect coroutine that is reconnecting.
C13_NoRetryOnFirstFailure ==
    [][/\ \A t \in Tasks :
            (ConnectFail(t) /\ ~conn_tasks[t].reconnecting)
                => (timers' = timers /\ ~is_connected(ws'))
       /\ timers' > timers
            => \E t \in Tasks : /\ conn_tasks[t].reconnecting
                                /\ conn_tasks[t].pc \in {"connecting", "replay"}
                                /\ Len(conn_tasks') < Len(conn_tasks)]_vars

\* C13 witness: two connect() calls overlapped, the attempt of the first
\* failed and the second was handed the lock; no channel, no timer.
C13_Witness ==
    /\ channels = <<>>
    /\ timers = 0
    /\ Len(conn_tasks) = 1
    /\ conn_tasks[1].pc = "locked"
    /\ ~conn_tasks[1].reconnecting

\* C16: a null frame handled while the disconnect-issued flag is set changes
\* nothing of the client (handle, ledger, pending operations, heartbeat,
\* connection attempts) and closes no channel.
C16_NullFrameAfterDisconnect ==
    [][\A k \in Channels :
          (disconnect_issued /\ WebsocketMessageNone(k))
              => UNCHANGED <<clientVars, channels, sent, unanswered>>]_vars

\* C16 witness: the closure of the channel disconnect() closed has been
\* reported and nothing was started.
C16_Witness ==
    /\ disconnect_issued
    /\ channels = <<"closed">>
    /\ nullq = {}
    /\ conn_tasks = <<>>
    /\ timers = 0
    /\ ~is_connected(ws)

\* C18: the ledger changes only in a step that completes a subscribe,
\* unsubscribe or strategy call, or in a disconnect() step; connection
\* attempts, replays and notices leave it as it is.
C18_LedgerSurvivesReconnects ==
    [][ws_jsonrpc_cache' # ws_jsonrpc_cache
          => \/ Disconnect
             \/ \E c \in calls : CallResume(c)
             \/ \E h \in Hists : HistSubscribed(h) \/ HistUnsubscribed(h)]_vars

\* C18 witness: after a loss the client reconnected and replayed the ledger,
\* a notice then started a subscriptions-only pass, and the ledger is still
\* in place.
C18_Witness ==
    /\ ws = MaxChan
    /\ conn_tasks = <<>>
    /\ notices # <<>>
    /\ Len(ws_jsonrpc_cache) = MaxId
    /\ Len(sent[ws]) > Len(notices[1].resent)
    /\ heart_beat_running

\* ------------------------------------------------------ claims on history
\* C14 (as claimed): after a sensor_history call ended with the timeout, the
\* ledger holds no subscribe entry for the call's namespace.
C14_TimeoutLeavesNoSubscription ==
    \A h \in Hists :
        hist[h].pc = "timeout"
            => ~\E i \in 1..Len(ws_jsonrpc_cache) :
                   /\ ws_jsonrpc_cache[i].method = "subscribe"
                   /\ ws_jsonrpc_cache[i].params[1] = HistNs[h]

\* C15 (as claimed): _sensor_history_states has no entry for the namespace
\* of a sensor_history call that has ended, however it ended.
C15_HistoryStateLifecycle ==
    \A h \in Hists : hist[h].pc \notin Running => HistNs[h] \notin DOMAIN sensor_history_states

\* The namespace belongs to a sensor_history call that has not ended.
InFlight(ns) == \E h \in Hists : HistNs[h] = ns /\ hist[h].pc \in Running

\* C20 (as claimed): a publication on the namespace of a running
\* sensor_history call is not handed to the update callback, and any other
\* publication is handed to it (when one is registered) once.
C20_UpdateCallbackCoverage ==
    [][\A k \in Channels, ns \in PubNs, d \in PubData :
          PubSub(k, ns, d)
              => IF InFlight(ns) THEN updates' = updates
                 ELSE updates' = forward(<<ns, d.type>>, on_update, updates)]_vars

\* ------------------------------------------------------- claims on frames
\* C17 (as claimed): when a pass of _resend_subscriptions ends, every
\* subscribe entry that was in the ledger when the notice arrived and still
\* is has been resent, in ledger order, nothing but subscribe entries was
\* resent, and the channel is the one the notice arrived on.
C17_NoticeReplaysSubscriptions ==
    [][\A p \in Notices, b \in BOOLEAN :
          (/\ NoticeResume(p, b)
           /\ resend_run(notices[p], ws, channels, futures, pending_requests, sent,
                         unanswered, b).outcome = "done")
              => /\ IsSubSeq(SelectSeq(notices[p].snap,
                                       LAMBDA id : \E j \in 1..Len(SubscribeIds(ws_jsonrpc_cache)) :
                                                      SubscribeIds(ws_jsonrpc_cache)[j] = id),
                             notices[p].resent)
                 /\ \A i \in 1..Len(ws_jsonrpc_cache) :
                        (\E j \in 1..Len(notices[p].resent) :
                             notices[p].resent[j] = ws_jsonrpc_cache[i].id)
                            => ws_jsonrpc_cache[i].method = "subscribe"
                 /\ ws' = notices[p].ch
                 /\ Len(channels') = Len(channels)]_vars

\* C19 (as claimed): a frame whose processing raises is handed to the update
\* callback when one is registered, and dropped otherwise.
C19_FailuresForwarded ==
    [][\A k \in Channels, kind \in FrameKinds :
          BadFrame(k, kind) => updates' = forward(<<"frame", kind>>, on_update, updates)]_vars

\* ---------------------------------------------------- claims on heartbeat
\* C25 (as claimed): whenever the client holds a channel and no _connect
\* coroutine is unfinished, the heartbeat timer is running.  (disconnect()
\* drops the channel handle, so a held channel was opened after the last
\* disconnect().)
C25_HeartbeatFollowsConnect ==
    (is_connected(ws) /\ conn_tasks = <<>>) => heart_beat_running

\* ----------------------------------------------- claims on history results
\* C21 (as claimed): the list a sensor_history call returns has at most
\* MAX_SAMPLES_PER_HISTORY_QUERY elements, and the warning was logged when
\* it has that many.
C21_HistorySampleCap ==
    \A h \in Hists :
        hist[h].pc = "returned"
            => /\ Len(hist[h].result) <= MAX_SAMPLES_PER_HISTORY_QUERY
               /\ Len(hist[h].result) = MAX_SAMPLES_PER_HISTORY_QUERY => hist[h].warned

Ascending(list) == \A i, j \in 1..Len(list) : i < j => list[i] <= list[j]

Count(list, x) == Cardinality({i \in 1..Len(list) : list[i] = x})

PermutationOf(a, b) ==
    /\ Len(a) = Len(b)
    /\ \A i \in 1..Len(b) : Count(a, b[i]) = Count(b, b[i])

C23_TimeoutBudget ==
    batch.pc = "history"
        => batch.call.timeout_sec
               = PyNum(batch.timeout_sec - (batch.started - batch.request_start_sec))

\* C24 (as claimed): every history sensors_histories has collected has the
\* sample shape the caller's include_value_ts selects.
C24_SampleShape ==
    \A j \in 1..Len(batch.histories) :
        batch.histories[j].shape = sample_shape(PyBool(batch.include_value_ts))

\* C26 (as claimed): a sensor_subarray_lookup call that found the subarray
\* number to be 0 ended with SubarrayNumberUnknown, without a fetch.
C26_UnknownSubarrayTyped ==
    (lookup.pc # "idle" /\ ~Truthy(lookup.sub_nr))
        => /\ lookup.pc = "raised"
           /\ lookup.raised = "SubarrayNumberUnknown"
           /\ lookup.fetches = 0

\* ------------------------------------------- claims on pending operations
\* C27 (as claimed): the pending-operations map has as many entries as there
\* are requests still awaiting their response.
C27_PendingLifecycle ==
    Cardinality(DOMAIN pending_requests)
        = Cardinality({f \in 1..Len(futures) : futures[f].value = "pending"})

\* C28 (as claimed): a future that has been resolved is never given a value
\* again.
C28_ResolvedOnce ==
    [][\A f \in 1..Len(futures) :
          futures[f].value # "pending" => futures'[f].value = futures[f].value]_vars

\* The frame is given to the correlator and its id is the string of no key
\* of the pending-operations map.
Unmatched(m) ==
    /\ ~StartsWith(m.id, <<"redis-", "pub", "sub">>)
    /\ ~StartsWith(m.id, <<"redis-", "reconnect">>)
    /\ \A n \in DOMAIN pending_requests : str(n) # m.id

\* C29: a response whose id matches no pending operation resolves no
\* future and leaves the pending-operations map, the ledger, the connection
\* state and everything else of the client and its channels as they were.
C29_UnmatchedDropped ==
    [][\A k \in Channels, m \in Messages, b, d \in BOOLEAN :
          (Unmatched(m) /\ WebsocketMessage(k, m, b, d))
              => UNCHANGED <<clientVars, netVars, routerVars>>]_vars

\* C29 witness: a response with the id of a request never made was handled
\* while a request is awaiting its response.
C29_Witness ==
    /\ \E j \in 1..Len(routed) : routed[j].id = str(MaxInboundId + 1)
    /\ nextId = 2
    /\ 1 \in DOMAIN pending_requests
    /\ futures[pending_requests[1]].value = "pending"
    /\ calls # {}

\* C30: every parsed frame is given to one handler, chosen by its id: the
\* data-plane handler for ids starting with 'redis-pubsub', the
\* subscriptions-only replay for ids starting with 'redis-reconnect', the
\* correlator for every other id; a handler changes nothing that belongs to
\* the others.
C30_MessageClassification ==
    [][\A k \in Channels, m \in Messages, b, d \in BOOLEAN :
          WebsocketMessage(k, m, b, d)
              => /\ Len(routed') = Len(routed) + 1
                 /\ routed'[Len(routed')].id = m.id
                 /\ IF StartsWith(m.id, <<"redis-", "pub", "sub">>)
                    THEN /\ routed'[Len(routed')].handler = "_process_redis_message"
                         /\ UNCHANGED <<clientVars, netVars, notices>>
                    ELSE IF StartsWith(m.id, <<"redis-", "reconnect">>)
                    THEN /\ routed'[Len(routed')].handler = "_resend_subscriptions"
                         /\ UNCHANGED <<sensor_history_states, orphans>>
                         /\ \A f \in 1..Len(futures) : futures'[f] = futures[f]
                    ELSE /\ routed'[Len(routed')].handler = "_process_json_rpc_message"
                         /\ UNCHANGED <<sent, updates, sensor_history_states, notices>>
                         /\ Len(futures') = Len(futures)]_vars

\* C30 witness: a 'redis-pubsub-init' frame, a 'redis-reconnect' frame that
\* made the client resend a subscription, and the response to a request have
\* been handled.
C30_Witness ==
    /\ Len(routed) = 3
    /\ \E j \in 1..Len(routed) : routed[j].id = <<"redis-", "pub", "sub", "-init">>
    /\ \E j \in 1..Len(routed) : routed[j].id = <<"redis-", "reconnect">>
    /\ \E j \in 1..Len(routed) : routed[j].id = str(1)
    /\ is_connected(ws) /\ Len(sent[ws]) = 2

\* ------------------------------------------- claims on history accumulation
\* The rows of a list message that have 6 fields, in order.
RECURSIVE SixFieldRows(_)
SixFieldRows(rows) ==
    IF rows = <<>> THEN <<>>
    ELSE IF Head(rows).fields = 6 THEN <<Head(rows)>> \o SixFieldRows(Tail(rows))
    ELSE SixFieldRows(Tail(rows))

\* C31: a publication on the namespace of a running sensor_history call
\* changes the query's state so: an inform message adds
\* num_samples_to_be_published to the pending counter and sets the done
\* event exactly when its done member is true (the samples stay); a list
\* message appends the rows that have 6 fields, in order, and lowers the
\* pending counter by their number (the done event stays).
C31_HistoryAccumulation ==
    [][\A k \in Channels, ns \in PubNs, d \in PubData :
          (PubSub(k, ns, d) /\ InFlight(ns) /\ ns \in DOMAIN sensor_history_states)
              => LET old == sensor_history_states[ns]
                     new == sensor_history_states'[ns]
                     six == SixFieldRows(d.rows)
                 IN /\ d.type = "inform"
                        => /\ new.num_samples_pending = old.num_samples_pending + d.num
                           /\ new.done_event = (old.done_event \/ d.done)
                           /\ new.samples = old.samples
                    /\ d.type = "rows"
                        => /\ new.samples = old.samples \o [j \in 1..Len(six) |-> six[j].ts]
                           /\ new.num_samples_pending = old.num_samples_pending - Len(six)
                           /\ new.done_event = old.done_event]_vars

\* C31 witness: a running query has taken both list messages (one row of 5
\* fields dropped) and an inform message announcing one sample, not done.
C31_Witness ==
    \E h \in Hists :
        /\ hist[h].pc = "wait"
        /\ sensor_history_states[HistNs[h]].samples = <<1, 2>>
        /\ sensor_history_states[HistNs[h]].num_samples_pending = -1
        /\ ~sensor_history_states[HistNs[h]].done_event

\* ---------------------------------------------- the strategy specification
\* A caller that sets the strategy of sensor s1 in namespace n1 again and
\* again, one call at a time and while the channel is open and no
\* connection attempt runs: 'event', then 'period 1', then 'event' again.
ScriptStrategy(id) == IF id % 2 = 1 THEN "event" ELSE "period 1"

WithinStratBounds ==
    /\ Len(channels) <= MaxStratChan
    /\ Len(futures) <= MaxStratFut
    /\ timers <= MaxTimers
    /\ nextId <= MaxStratId + 1

NextStrategy ==
    /\ \/ conn_tasks = <<>> /\ UserConnect
       \/ TimerFire
       \/ \E t \in Tasks : LockResume(t)
       \/ \E t \in Tasks : ConnectOK(t)
       \/ \E t \in Tasks : ConnectFail(t)
       \/ \E t \in Tasks, b \in BOOLEAN : ReplayResume(t, b)
       \/ \E k \in Channels : ServerClose(k)
       \/ \E k \in Channels : WebsocketMessageNone(k)
       \/ \E k \in Channels, id \in 1..MaxStratId : Response(k, id, "r1", None)
       \/ /\ calls = {} /\ conn_tasks = <<>>
          /\ is_connected(ws) /\ channels[ws] = "open"
          /\ UserCall("set_sampling_strategy",
                      <<"n1", "s1", ScriptStrategy(nextId), FALSE>>, TRUE)
       \/ \E c \in calls : CallResume(c)
    /\ WithinStratBounds'

SpecStrategy == Init /\ [][NextStrategy]_vars

\* ---------------------------------------------- claims on replay and order
\* C33 (as claimed): when a full replay ends normally, no call being in
\* flight, the last request it has written to the new channel carries the
\* strategy of the caller's latest set_sampling_strategy call.
C33_ReplayRestoresLatestStrategy ==
    [][\A t \in Tasks :
          (/\ conn_tasks[t].pc = "replay"
           /\ Len(conn_tasks') < Len(conn_tasks)
           /\ heart_beat_running'
           /\ calls = {}
           /\ is_connected(ws')
           /\ sent'[ws'] # <<>>)
              => ScriptStrategy(sent'[ws'][Len(sent'[ws'])]) = ScriptStrategy(nextId - 1)]_vars

\* ---------------------------------------------- the ordering specification
\* A caller that calls subscribe('n1', 'x') and then unsubscribe('n1', 'x')
\* without waiting for the first call to return.
ScriptMethod(id) == IF id % 2 = 1 THEN "subscribe" ELSE "unsubscribe"

WithinOrderBounds ==
    /\ Len(channels) <= MaxOrderChan
    /\ timers <= MaxTimers
    /\ nextId <= MaxOrderId + 1

\* The IOLoop runs its callbacks in the order they were added: the call a
\* response resumes runs before the call a later response resumes.  Here a
\* response is handled once the calls already resumable have run.
InOrder == \A c \in calls : futures[c.fut].value = "pending"

NextOrder ==
    /\ \/ conn_tasks = <<>> /\ UserConnect
       \/ TimerFire
       \/ \E t \in Tasks : LockResume(t)
       \/ \E t \in Tasks : ConnectOK(t)
       \/ \E t \in Tasks : ConnectFail(t)
       \/ \E t \in Tasks, b \in BOOLEAN : ReplayResume(t, b)
       \/ \E k \in Channels : ServerClose(k)
       \/ \E k \in Channels : WebsocketMessageNone(k)
       \/ \E k \in Channels, id \in 1..MaxOrderId : InOrder /\ Response(k, id, "r1", None)
       \/ \E b \in BOOLEAN : UserCall(ScriptMethod(nextId), <<"n1", "x">>, b)
       \/ \E c \in calls : CallResume(c)
    /\ WithinOrderBounds'

SpecOrder == Init /\ [][NextOrder]_vars

\* C34 (as claimed): once subscribe('n1', 'x') and the unsubscribe('n1', 'x')
\* issued after it have both been answered and have both returned, the
\* ledger holds no subscribe('n1', 'x') entry.
C34_LedgerMatchesIssueOrder ==
    (/\ calls = {}
     /\ \A id \in 1..MaxOrderId :
            \E f \in 1..Len(futures) :
                /\ futures[f].id = id
                /\ futures[f].value # "pending"
                /\ \A g \in 1..Len(futures) : futures[g].id = id => f <= g)
        => ~\E i \in 1..Len(ws_jsonrpc_cache) :
               /\ ws_jsonrpc_cache[i].method = "subscribe"
               /\ ws_jsonrpc_cache[i].params = <<"n1", "x">>

\* C37 (as claimed): when a subscriptions-only pass ends normally, every
\* subscribe entry that was in the ledger when the pass started and is
\* still there has been resent by the pass exactly once, whatever calls
\* completed while the pass awaited a response.
C37_ReplayUnderLedgerChanges ==
    [][\A p \in Notices, b \in BOOLEAN :
          (/\ NoticeResume(p, b)
           /\ resend_run(notices[p], ws, channels, futures, pending_requests, sent,
                         unanswered, b).outcome = "done")
              => \A j \in 1..Len(notices[p].snap) :
                     notices[p].snap[j] \in CachedIds
                         => Count(notices[p].resent, notices[p].snap[j]) = 1]_vars

\* ------------------------------------- claims on disconnect and connecting
\* C38 (as claimed): when disconnect() was called while an attempt of
\* connect() awaited websocket_connect and connect() was not called again,
\* the step that ends the attempt leaves the client without a channel and
\* with the heartbeat stopped.
C38_DisconnectWhileConnecting ==
    [][\A t \in Tasks :
          (/\ conn_tasks[t].pc = "connecting"
           /\ ~conn_tasks[t].reconnecting
           /\ userDisc
           /\ ConnectOK(t) \/ ConnectFail(t))
              => (~is_connected(ws') /\ ~heart_beat_running')]_vars

\* C39 (as claimed): the null frame of the first channel, which disconnect()
\* closed, handled when a later connect() has opened the second channel
\* leaves that channel open and the handle on it, and starts no _connect.
\* (With two channels opened, the handle on the second and the closure of
\* the first unreported, the first was dropped by disconnect(): the handler
\* of its null frame would have taken the report.)
C39_StaleClosureNotice ==
    [][(/\ Len(channels) = 2
        /\ ws = 2
        /\ channels[2] = "open"
        /\ WebsocketMessageNone(1))
          => /\ ws' = ws
             /\ channels' = channels
             /\ conn_tasks' = conn_tasks]_vars

\* --------------------------------------------- the recording specification
\* One channel: calls of the four recorded methods, answered or not, made
\* connected or not, and a sensor_history call that runs among them.
RecordCalls ==
    {<<"subscribe", <<"n1", "x">>>>,
     <<"unsubscribe", <<"n1", "x">>>>,
     <<"set_sampling_strategy", <<"n1", "s1", "event", FALSE>>>>,
     <<"set_sampling_strategies", <<"n1", "s1", "event", FALSE>>>>}

\* The inform message that ends a history query.
DoneInform == [type |-> "inform", num |-> 0, done |-> TRUE, rows |-> <<>>]

WithinRecordBounds ==
    /\ Len(hist) <= MaxHist
    /\ Len(channels) <= MaxRecordChan
    /\ nextId <= MaxRecordId + 1
    /\ Cardinality(calls) <= MaxRecordCalls

NextRecord ==
    /\ \/ conn_tasks = <<>> /\ UserConnect
       \/ \E t \in Tasks : ConnectOK(t)
       \/ \E t \in Tasks : ConnectFail(t)
       \/ \E k \in Channels : ServerClose(k)
       \/ \E k \in Channels, id \in 1..MaxRecordId : Response(k, id, "r1", None)
       \/ \E c \in RecordCalls, b \in BOOLEAN : UserCall(c[1], c[2], b)
       \/ \E c \in calls : CallResume(c)
       \/ \E b \in BOOLEAN : HistoryCall(b)
       \/ \E h \in Hists, b \in BOOLEAN : HistConnected(h, b)
       \/ \E h \in Hists : HistSubscribed(h)
       \/ \E h \in Hists, o \in FetchOutcomes, b \in BOOLEAN : HistFetched(h, o, b)
       \/ \E h \in Hists, b \in BOOLEAN : HistDone(h, b)
       \/ \E h \in Hists : HistTimeout(h)
       \/ \E h \in Hists : HistUnsubscribed(h)
       \/ \E k \in Channels :
              "h1" \in DOMAIN sensor_history_states /\ PubSub(k, "h1", DoneInform)
    /\ WithinRecordBounds'

SpecRecord == Init /\ [][NextRecord]_vars

\* ------------------------------------------------------ claims on recording
\* The entries of cache that are not of namespace ns, in order.
OtherEntries(cache, ns) == SelectSeq(cache, LAMBDA r : r.params[1] # ns)

\* C40: a step that issues a request (whether it is written, fails for want
\* of a connection or raises) leaves the ledger as it is; the ledger changes
\* only in the step in which a call resumes with the response to its
\* request; the steps of a sensor_history call leave the entries of other
\* namespaces in place and in order, and when the call returns the ledger
\* holds no entry of the call's namespace.
C40_FailedCallRecordsNothing ==
    [][/\ nextId' # nextId => ws_jsonrpc_cache' = ws_jsonrpc_cache
       /\ ws_jsonrpc_cache' # ws_jsonrpc_cache
             => \/ \E c \in calls : futures[c.fut].value # "pending" /\ CallResume(c)
                \/ \E h \in Hists :
                       /\ HistSubscribed(h) \/ HistUnsubscribed(h)
                       /\ futures[hist[h].fut].value # "pending"
       /\ \A h \in Hists :
             /\ (HistSubscribed(h) \/ HistUnsubscribed(h))
                    => OtherEntries(ws_jsonrpc_cache', HistNs[h])
                           = OtherEntries(ws_jsonrpc_cache, HistNs[h])
             /\ (hist[h].pc # "returned" /\ hist'[h].pc = "returned")
                    => ws_jsonrpc_cache' = OtherEntries(ws_jsonrpc_cache', HistNs[h])]_vars

\* C40 witness: the first call failed for want of a connection, the second
\* was answered and recorded, and a sensor_history call made after it has
\* returned: the ledger holds the second call's entry alone.
C40_Witness ==
    /\ nextId = MaxRecordId + 1
    /\ Len(futures) = MaxRecordId - 1
    /\ calls = {}
    /\ \E h \in Hists : hist[h].pc = "returned" /\ hist[h].req.id = MaxRecordId
    /\ Len(ws_jsonrpc_cache) = 1
    /\ ws_jsonrpc_cache[1].id = 2
    /\ ws_jsonrpc_cache[1].method = "set_sampling_strategies"

\* ------------------------------------------------ claims on replay passes
\* C35 (as claimed): under the fairness of SpecLive, when the loss of the
\* channel has been handled (the handle is dropped) while a full replay
\* still awaits the response to a resent entry, the client eventually holds
\* a channel again (or the model has run out of channels).
C35_LossDuringReplay ==
    (~is_connected(ws) /\ \E t \in Tasks : conn_tasks[t].pc = "replay")
        ~> (is_connected(ws) \/ Len(channels) = MaxLiveChan)

\* ------------------------------------------------ the passes specification
\* One channel and one recorded subscription; broker-reconnect notices that
\* may overlap, and a server that answers every request written to the
\* channel, once for each time it was written.
NoticeMessage ==
    [id |-> <<"redis-", "reconnect">>, result |-> "r1", error |-> None,
     ns |-> None, data |-> NoData]

ResponseMessage(n) ==
    [id |-> str(n), result |-> "r1", error |-> None, ns |-> None, data |-> NoData]

\* The number of times request n was written to channel k, and the number
\* of the responses to it that were handled.
Written(k, n) == Cardinality({j \in 1..Len(sent[k]) : sent[k][j] = n})
Answered(n) == Cardinality({j \in 1..Len(routed) : routed[j].id = str(n)})

WithinPassBounds ==
    /\ Len(channels) <= MaxPassChan
    /\ nextId <= MaxPassId + 1
    /\ Len(notices) <= MaxPassNotices
    /\ Len(routed) <= MaxPassRouted

NextPasses ==
    /\ \/ conn_tasks = <<>> /\ UserConnect
       \/ \E t \in Tasks : ConnectOK(t)
       \/ UserCall("subscribe", <<"n1", "x">>, TRUE)
       \/ \E c \in calls : CallResume(c)
       \/ \E k \in Channels, b, d \in BOOLEAN : WebsocketMessage(k, NoticeMessage, b, d)
       \/ \E k \in Channels, n \in 1..MaxPassId, b, d \in BOOLEAN :
              Answered(n) < Written(k, n) /\ WebsocketMessage(k, ResponseMessage(n), b, d)
       \/ \E p \in Notices, b \in BOOLEAN : NoticeResume(p, b)
    /\ WithinPassBounds'

SpecPasses == Init /\ [][NextPasses]_vars

\* C36 (as claimed): a pass that awaits a response has a response to come:
\* the request it resent was written to the channel more often than it was
\* answered.  (Otherwise the server has answered every request written and
\* the pass never finishes.)
C36_OverlappingPassesTerminate ==
    \A p \in Notices :
        futures[notices[p].fut].value = "pending"
            => Answered(futures[notices[p].fut].id) < Written(notices[p].ch, futures[notices[p].fut].id)

\* --------------------------------------------- the isolation specification
\* One channel and two sensor_history calls that may run at once, with
\* publications on the namespace of either.
PairNs == {HistNs[h] : h \in 1..MaxPairHist}

PairData ==
    {[type |-> "inform", num |-> 1, done |-> TRUE, rows |-> <<>>],
     [type |-> "rows", num |-> 0, done |-> FALSE, rows |-> <<Row(6, 2)>>]}

WithinPairBounds ==
    /\ Len(hist) <= MaxPairHist
    /\ Len(channels) <= MaxPairChan
    /\ nextId <= MaxPairId + 1
    /\ \A ns \in DOMAIN sensor_history_states :
           /\ Len(sensor_history_states[ns].samples) <= MaxPairSamples
           /\ sensor_history_states[ns].num_samples_pending \in -MaxPending..MaxPending

NextPair ==
    /\ \/ \E b \in BOOLEAN : HistoryCall(b)
       \/ \E t \in Tasks : ConnectOK(t)
       \/ \E t \in Tasks : LockResume(t)
       \/ \E k \in Channels, id \in 1..MaxPairId : Response(k, id, "r1", None)
       \/ \E h \in Hists, b \in BOOLEAN : HistConnected(h, b)
       \/ \E h \in Hists : HistSubscribed(h)
       \/ \E h \in Hists : HistFetched(h, "success", TRUE)
       \/ \E h \in Hists : HistTimeout(h)
       \/ \E k \in Channels, ns \in PairNs, d \in PairData :
              ns \in DOMAIN sensor_history_states /\ PubSub(k, ns, d)
    /\ WithinPairBounds'

SpecPair == Init /\ [][NextPair]_vars

\* ---------------------------------------------------- claims on isolation
\* C32: sensor_history calls that run at once have distinct namespaces, and
\* a publication on the namespace of one of them leaves the state (samples,
\* pending counter, done event) of every other query, and every call, as
\* it was.
C32_HistoryQueryIsolation ==
    [][/\ \A h, g \in Hists :
             (h # g /\ hist[h].pc \in Running /\ hist[g].pc \in Running)
                 => HistNs[h] # HistNs[g]
       /\ \A k \in Channels, ns \in PairNs, d \in PairData :
             (PubSub(k, ns, d) /\ ns \in DOMAIN sensor_history_states)
                 => /\ DOMAIN sensor_history_states' = DOMAIN sensor_history_states
                    /\ \A other \in DOMAIN sensor_history_states \ {ns} :
                           sensor_history_states'[other] = sensor_history_states[other]
                    /\ hist' = hist]_vars

\* C32 witness: two calls await their done event; the first has taken a
\* sample and its done marker, the second has taken nothing.
C32_Witness ==
    /\ Len(hist) = MaxPairHist
    /\ hist[1].pc = "wait"
    /\ hist[2].pc = "wait"
    /\ sensor_history_states[HistNs[1]].done_event
    /\ sensor_history_states[HistNs[1]].samples = <<2>>
    /\ sensor_history_states[HistNs[2]] = NewState

====
